---- MODULE Spec2Model ----
(***************************************************************************)
(* A model of pkg/tcpip/stack/nic.go: the NIC's address table, the         *)
(* reference cells (referencedNetworkEndpoint), the primary lists, the     *)
(* multicast join counts and the operations that change them.              *)
(*                                                                         *)
(* Locking.  Every section of the code that runs under n.mu.Lock() is one  *)
(* action: the write lease excludes every other lease holder, and the only *)
(* accesses made outside the lease (the atomic decrement of decRef and     *)
(* incRef) touch a cell's refs alone, which a write section reads at most  *)
(* once per cell.  A section under n.mu.RLock() that makes one refs access *)
(* is one action as well.  The generic walk of primaryEndpoint keeps the   *)
(* read lease between taking its provisional reference and dropping it;    *)
(* it is two actions and write sections wait while a walk is in progress.  *)
(***************************************************************************)
EXTENDS Integers, Sequences, FiniteSets, TLC

\* ------------------------------------------------------------------ bounds
NumThreads == 2      \* threads that can be inside a multi-step operation
MaxGen == 2          \* reference cells per address that exist at one time
MaxHandles == 2      \* outstanding handles (routes) per cell
MaxJoins == 2        \* cap of a multicast join count
MaxRanges == 1       \* cap of the length of addressRanges
MaxPackets == 2      \* packets the link endpoint delivers
MaxPacketEPs == 1    \* cap of the length of a list of packet endpoints

Threads == 1..NumThreads

\* --------------------------------------------------------------- addresses
\* An address is its length in bytes, its leading bytes and its low 24 bits.
\* The NIC's link address gives the interface identifier ::1, so the addresses
\* SLAAC makes for this NIC all end in it.
NilAddr == [len |-> 0, pfx |-> "", low |-> 0]
IPv4Broadcast == [len |-> 4, pfx |-> "255.255.255", low |-> 255]
LinkLocalAddr == [len |-> 16, pfx |-> "fe80", low |-> 1]
GlobalAddr == [len |-> 16, pfx |-> "2001:db8", low |-> 1]
IPv6AllNodesMulticastAddress == [len |-> 16, pfx |-> "ff02", low |-> 1]
\* More addresses a caller can give the NIC: of link-local, unique-local and
\* global scope.
LinkLocalAddr3 == [len |-> 16, pfx |-> "fe80", low |-> 3]
UniqueLocalAddr2 == [len |-> 16, pfx |-> "fc00", low |-> 2]
GlobalAddr2 == [len |-> 16, pfx |-> "2001:db8", low |-> 2]
GlobalAddr3 == [len |-> 16, pfx |-> "2001:db8", low |-> 3]
GlobalAddr4 == [len |-> 16, pfx |-> "2001:db8", low |-> 4]

IPv4ProtocolNumber == "ipv4"
IPv6ProtocolNumber == "ipv6"
networkProtocols == {IPv4ProtocolNumber, IPv6ProtocolNumber}

\* header.Ethertypes: the protocols a packet endpoint can be registered for.
ARPProtocolNumber == "arp"
EthernetProtocolAll == "all"
Ethertypes ==
    {EthernetProtocolAll, ARPProtocolNumber, IPv4ProtocolNumber, IPv6ProtocolNumber}

\* header.IsV6UnicastAddress: 16 bytes and the first byte is not 0xff.
IsV6UnicastAddress(addr) == addr.len = 16 /\ addr.pfx \notin {"ff02", "ff02:1:ff"}

\* header.SolicitedNodeAddr: ff02::1:ffXX:XXXX from the low 24 bits.
SolicitedNodeAddr(addr) == [len |-> 16, pfx |-> "ff02:1:ff", low |-> addr.low]

\* header.ScopeForIPv6Address: LinkLocalScope < UniqueLocalScope < GlobalScope.
ScopeForIPv6Address(addr) ==
    CASE addr.pfx = "fe80" -> 0
      [] addr.pfx = "fc00" -> 1
      [] OTHER -> 2

\* The protocol a caller passes with an address.
ProtoOf(addr) == IF addr.len = 4 THEN IPv4ProtocolNumber ELSE IPv6ProtocolNumber

\* The addresses of the model: those the callers pass and those the NIC derives.
Addrs ==
    {GlobalAddr, LinkLocalAddr, IPv4Broadcast, IPv6AllNodesMulticastAddress,
     SolicitedNodeAddr(LinkLocalAddr),
     LinkLocalAddr3, UniqueLocalAddr2, GlobalAddr2, GlobalAddr3, GlobalAddr4,
     SolicitedNodeAddr(GlobalAddr2), SolicitedNodeAddr(GlobalAddr3),
     SolicitedNodeAddr(GlobalAddr4)}

\* tcpip.Subnet: the subnet address, the broadcast address and what lies between.
GlobalSubnet == [len |-> 16, pfx |-> "2001:db8", lo |-> 0, hi |-> 3]
SubnetID(sn) == [len |-> sn.len, pfx |-> sn.pfx, low |-> sn.lo]
SubnetBroadcast(sn) == [len |-> sn.len, pfx |-> sn.pfx, low |-> sn.hi]
SubnetContains(sn, addr) ==
    addr.len = sn.len /\ addr.pfx = sn.pfx /\ sn.lo <= addr.low /\ addr.low <= sn.hi

\* ------------------------------------------------------------ enumerations
CanBePrimaryEndpoint == "CanBePrimaryEndpoint"
FirstPrimaryEndpoint == "FirstPrimaryEndpoint"
NeverPrimaryEndpoint == "NeverPrimaryEndpoint"
PrimaryEndpointBehavior ==
    {CanBePrimaryEndpoint, FirstPrimaryEndpoint, NeverPrimaryEndpoint}

permanentTentative == "permanentTentative"
permanent == "permanent"
permanentExpired == "permanentExpired"
temporary == "temporary"
networkEndpointKind == {permanentTentative, permanent, permanentExpired, temporary}

static == "static"
slaac == "slaac"

spoofing == "spoofing"
promiscuous == "promiscuous"
forceSpoofing == "forceSpoofing"
getRefBehaviour == {spoofing, promiscuous, forceSpoofing}

ErrNone == "ok"
ErrDuplicateAddress == "ErrDuplicateAddress"
ErrUnknownProtocol == "ErrUnknownProtocol"
ErrBadLocalAddress == "ErrBadLocalAddress"
ErrBadAddress == "ErrBadAddress"
ErrInvalidEndpointState == "ErrInvalidEndpointState"
\* Not an error of the program: the operation would exceed a bound of the model.
OutOfBounds == "out of bounds"

\* ------------------------------------------------------------------- state
VARIABLES
    nic,            \* the NIC's mu block, the reference cells it owns, its
                    \* counters and those of its stack
    handles,        \* handles[r]: references to cell r that callers hold
    pendingRemove,  \* cells whose refs a decRef drove to 0, removal not yet run
    pc,             \* pc[t]: where thread t is
    loc             \* loc[t]: the locals of thread t's operation

vars == <<nic, handles, pendingRemove, pc, loc>>

\* A reference cell is named by its address and a slot number.
CellIds == [a : Addrs, g : 1..MaxGen]
NilRef == [a |-> NilAddr, g |-> 0]

\* A slot that holds no cell.
FreeCell ==
    [used |-> FALSE, protocol |-> "", kind |-> temporary, refs |-> 0,
     configType |-> static, deprecated |-> FALSE, closed |-> 0]

\* makeNICStats: the counters of the NIC.
NoNICStats ==
    [Tx |-> [Packets |-> 0, Bytes |-> 0],
     Rx |-> [Packets |-> 0, Bytes |-> 0],
     DisabledRx |-> [Packets |-> 0, Bytes |-> 0]]

\* The counters of the owning stack that the NIC increments.
NoStackStats ==
    [UnknownProtocolRcvdPackets |-> 0, MalformedRcvdPackets |-> 0,
     PacketsReceived |-> 0, InvalidSourceAddressesReceived |-> 0,
     InvalidDestinationAddressesReceived |-> 0, OutgoingPacketErrors |-> 0]

\* The calls the NIC has made to its collaborators: HandlePacket of a network
\* endpoint, HandlePacket of a packet endpoint, the forwarder's enqueue and
\* the link endpoint's WritePacket.
NoCalls == [HandlePacket |-> 0, packetEP |-> 0, enqueue |-> 0, WritePacket |-> 0, FindRoute |-> 0, Release |-> 0]

\* sync.RWMutex, unlocked: the read leases held and the threads that wait in
\* Lock. (A write lease is held within one step.)
RWMutex == [readers |-> 0, pending |-> {}]

\* newNIC.
NewNIC ==
    [mu |-> RWMutex,
     enabled |-> FALSE, spoofing |-> FALSE, promiscuous |-> FALSE,
     attached |-> 0,
     primary |-> [p \in networkProtocols |-> <<>>],
     endpoints |-> [a \in Addrs |-> 0],
     addressRanges |-> <<>>,
     mcastJoins |-> [a \in Addrs |-> 0],
     ndp |-> [dad |-> {}, autoGenAddresses |-> {}, solicitingRouters |-> FALSE],
     cells |-> [r \in CellIds |-> FreeCell],
     packetEPs |-> [p \in Ethertypes \cup networkProtocols |-> <<>>],
     packetEPsTail |-> [p \in Ethertypes \cup networkProtocols |-> <<>>],
     stats |-> NoNICStats,
     stackStats |-> NoStackStats,
     calls |-> NoCalls,
     panicked |-> ""]

\* A packet is its protocol, the length of its first view and the addresses
\* ParseAddresses finds in it.
NoPacket == [protocol |-> "", size |-> 0, src |-> NilAddr, dst |-> NilAddr]

NoLoc == [addr |-> NilAddr, protocol |-> "", peb |-> CanBePrimaryEndpoint,
          view |-> <<>>, i |-> 0, dep |-> NilRef, pkt |-> NoPacket, packetEPs |-> <<>>,
          alias |-> "", snap |-> <<>>, called |-> <<>>,
          spoofingOrPromiscuous |-> FALSE, route |-> FALSE]


\* ------------------------------------------------------- reference cells
Ref(addr, g) == [a |-> addr, g |-> g]

\* n.mu.endpoints[NetworkEndpointID{addr}], NilRef when the map has no entry.
Lookup(n, addr) == IF n.endpoints[addr] = 0 THEN NilRef ELSE Ref(addr, n.endpoints[addr])

getKind(n, r) == n.cells[r].kind

setKind(n, r, kind) == [n EXCEPT !.cells[r].kind = kind]

\* A tryIncRef that does not look at the count it increments.
tryIncRefOk_FromZero(n, r) == TRUE

\* tryIncRef: fails iff the count it observes is zero.
tryIncRefOk(n, r) == n.cells[r].refs # 0

tryIncRef(n, r) ==
    IF n.cells[r].refs = 0 THEN n ELSE [n EXCEPT !.cells[r].refs = @ + 1]

incRef(n, r) == [n EXCEPT !.cells[r].refs = @ + 1]

\* isValidForOutgoingRLocked without the spoofing flag.
isValidForOutgoingRLocked_IgnoresSpoofing(n, r) == getKind(n, r) # permanentExpired

isValidForOutgoingRLocked(n, r) == getKind(n, r) # permanentExpired \/ n.spoofing

\* The sequence s without its element at position i.
CutAt(s, i) == SubSeq(s, 1, i - 1) \o SubSeq(s, i + 1, Len(s))

\* The first position of s that holds r, 0 when none does.
IndexOf(s, r) ==
    IF \E i \in 1..Len(s) : s[i] = r
    THEN CHOOSE i \in 1..Len(s) : s[i] = r /\ \A j \in 1..(i - 1) : s[j] # r
    ELSE 0

insertPrimaryEndpointLocked(n, r, peb) ==
    CASE peb = CanBePrimaryEndpoint ->
           [n EXCEPT !.primary[n.cells[r].protocol] = Append(@, r)]
      [] peb = FirstPrimaryEndpoint ->
           [n EXCEPT !.primary[n.cells[r].protocol] = <<r>> \o @]
      [] OTHER -> n

\* removeEndpointLocked without its delete(n.mu.endpoints, id).
removeEndpointLocked_NoDelete(n, r) ==
    IF n.endpoints[r.a] # r.g THEN n
    ELSE IF n.cells[r].kind = permanent
    THEN [n EXCEPT !.panicked = "Reference count dropped to zero before being removed"]
    ELSE LET refs == n.primary[n.cells[r].protocol]
             i == IndexOf(refs, r)
         IN [n EXCEPT !.primary[n.cells[r].protocol] =
                          IF i = 0 THEN refs ELSE CutAt(refs, i),
                      !.cells[r].closed = @ + 1]

\* removeEndpointLocked without the check of lines 859-866 that the table
\* still holds this very cell.
removeEndpointLocked_AnyCell(n, r) ==
    IF getKind(n, r) = permanent
    THEN [n EXCEPT !.panicked = "Reference count dropped to zero before being removed"]
    ELSE LET refs == n.primary[n.cells[r].protocol]
             i == IndexOf(refs, r)
         IN [n EXCEPT !.endpoints[r.a] = 0,
                      !.primary[n.cells[r].protocol] =
                          IF i = 0 THEN refs ELSE CutAt(refs, i),
                      !.cells[r].closed = @ + 1]

\* removeEndpointLocked without the loop of lines 872-878 that cuts the cell
\* out of its primary list.
removeEndpointLocked_KeepsPrimary(n, r) ==
    IF n.endpoints[r.a] # r.g THEN n
    ELSE IF getKind(n, r) = permanent
    THEN [n EXCEPT !.panicked = "Reference count dropped to zero before being removed"]
    ELSE [n EXCEPT !.endpoints[r.a] = 0, !.cells[r].closed = @ + 1]

removeEndpointLocked(n, r) ==
    IF n.endpoints[r.a] # r.g THEN n
    ELSE IF getKind(n, r) = permanent
    THEN [n EXCEPT !.panicked = "Reference count dropped to zero before being removed"]
    ELSE LET refs == n.primary[n.cells[r].protocol]
             i == IndexOf(refs, r)
         IN [n EXCEPT !.endpoints[r.a] = 0,
                      !.primary[n.cells[r].protocol] =
                          IF i = 0 THEN refs ELSE CutAt(refs, i),
                      !.cells[r].closed = @ + 1]

\* decRefLocked: the decrement and, at zero, the removal. "removed" is its result.
decRefLocked(n, r) ==
    LET n1 == [n EXCEPT !.cells[r].refs = @ - 1]
    IN IF n1.cells[r].refs = 0
       THEN [n |-> removeEndpointLocked(n1, r), removed |-> TRUE]
       ELSE [n |-> n1, removed |-> FALSE]

\* ------------------------------------------------------------ NDP substate
startDuplicateAddressDetection(n, addr) == [n EXCEPT !.ndp.dad = @ \cup {addr}]

stopDuplicateAddressDetection(n, addr) == [n EXCEPT !.ndp.dad = @ \ {addr}]

cleanupAutoGenAddrResourcesAndNotify(n, addr) ==
    [n EXCEPT !.ndp.autoGenAddresses = @ \ {addr}]

startSolicitingRouters(n) == [n EXCEPT !.ndp.solicitingRouters = TRUE]

\* ----------------------------------------------------- addAddressLocked
\* The lowest slot of addr that holds no cell, 0 when every slot is taken.
FreeSlot(n, addr) ==
    IF \E g \in 1..MaxGen : ~n.cells[Ref(addr, g)].used
    THEN CHOOSE g \in 1..MaxGen :
            /\ ~n.cells[Ref(addr, g)].used
            /\ \A h \in 1..(g - 1) : n.cells[Ref(addr, h)].used
    ELSE 0

\* The loop of the promotion branch over refs (lines 599-615). arr is what the
\* slice refs reads, prim the value of n.mu.primary[ref.protocol]; "returned"
\* says that the loop returned from addAddressLocked.
RECURSIVE promoteLoop(_, _, _, _, _)
promoteLoop(arr, prim, i, ref, peb) ==
    IF i > Len(arr) THEN [prim |-> prim, returned |-> FALSE]
    ELSE IF arr[i] # ref THEN promoteLoop(arr, prim, i + 1, ref, peb)
    ELSE CASE peb = CanBePrimaryEndpoint -> [prim |-> prim, returned |-> TRUE]
           [] peb = FirstPrimaryEndpoint ->
                IF i = 1 THEN [prim |-> prim, returned |-> TRUE]
                ELSE promoteLoop(CutAt(arr, i) \o <<arr[Len(arr)]>>, CutAt(arr, i),
                                 i + 1, ref, peb)
           [] OTHER -> [prim |-> CutAt(arr, i), returned |-> TRUE]

\* The promotion branch without the reference the permanent kind stands for.
promoteLocked_NoBias(n, ref, peb, configType, deprecated) ==
    LET n1 == [setKind(n, ref, permanent) EXCEPT
                   !.cells[ref].deprecated = deprecated,
                   !.cells[ref].configType = configType]
        proto == n1.cells[ref].protocol
        w == promoteLoop(n1.primary[proto], n1.primary[proto], 1, ref, peb)
        n2 == [n1 EXCEPT !.primary[proto] = w.prim]
    IN IF w.returned THEN n2 ELSE insertPrimaryEndpointLocked(n2, ref, peb)

\* The promotion branch with a loop that leaves the primary list as it finds it.
promoteLocked_IgnoresPeb(n, ref, peb, configType, deprecated) ==
    LET n1 == [setKind(tryIncRef(n, ref), ref, permanent) EXCEPT
                   !.cells[ref].deprecated = deprecated,
                   !.cells[ref].configType = configType]
    IN IF IndexOf(n1.primary[n1.cells[ref].protocol], ref) # 0 THEN n1
       ELSE insertPrimaryEndpointLocked(n1, ref, peb)

\* The promotion branch (lines 592-619), entered after tryIncRef succeeded.
promoteLocked(n, ref, peb, configType, deprecated) ==
    LET n1 == [setKind(tryIncRef(n, ref), ref, permanent) EXCEPT
                   !.cells[ref].deprecated = deprecated,
                   !.cells[ref].configType = configType]
        proto == n1.cells[ref].protocol
        w == promoteLoop(n1.primary[proto], n1.primary[proto], 1, ref, peb)
        n2 == [n1 EXCEPT !.primary[proto] = w.prim]
    IN IF w.returned THEN n2 ELSE insertPrimaryEndpointLocked(n2, ref, peb)

RECURSIVE addAddressLocked(_, _, _, _, _, _, _)
RECURSIVE joinGroupLocked(_, _, _)

\* Lines 629-687: a new cell for addr.
addNewLocked(n, addr, protocol, peb, kind, configType, deprecated) ==
    LET isIPv6Unicast == protocol = IPv6ProtocolNumber /\ IsV6UnicastAddress(addr)
        kind2 == IF isIPv6Unicast /\ kind = permanent THEN permanentTentative ELSE kind
        g == FreeSlot(n, addr)
        ref == Ref(addr, g)
        j == IF isIPv6Unicast
             THEN joinGroupLocked(n, protocol, SolicitedNodeAddr(addr))
             ELSE [n |-> n, err |-> ErrNone]
        cell == [used |-> TRUE, protocol |-> protocol, kind |-> kind2, refs |-> 1,
                 configType |-> configType, deprecated |-> deprecated, closed |-> 0]
        n1 == [j.n EXCEPT !.cells[ref] = cell, !.endpoints[addr] = g]
        n2 == insertPrimaryEndpointLocked(n1, ref, peb)
        n3 == IF isIPv6Unicast /\ kind2 = permanentTentative /\ n2.enabled
              THEN startDuplicateAddressDetection(n2, addr)
              ELSE n2
    IN IF protocol \notin networkProtocols
       THEN [n |-> n, ref |-> NilRef, err |-> ErrUnknownProtocol]
       ELSE IF g = 0 THEN [n |-> n, ref |-> NilRef, err |-> OutOfBounds]
       ELSE IF j.err # ErrNone THEN [n |-> j.n, ref |-> NilRef, err |-> j.err]
       ELSE [n |-> n3, ref |-> ref, err |-> ErrNone]

\* addAddressLocked without the removeEndpointLocked of line 625: the new cell
\* comes in while the one whose refcount is zero is still in place.
addAddressLocked_KeepsDeadEndpoint(n, addr, protocol, peb, kind, configType, deprecated) ==
    LET ref == Lookup(n, addr)
    IN IF ref = NilRef
       THEN addNewLocked(n, addr, protocol, peb, kind, configType, deprecated)
       ELSE IF kind # permanent
       THEN [n |-> n, ref |-> NilRef, err |-> ErrDuplicateAddress]
       ELSE IF getKind(n, ref) \in {permanentTentative, permanent}
       THEN [n |-> n, ref |-> NilRef, err |-> ErrDuplicateAddress]
       ELSE IF tryIncRefOk(n, ref)
       THEN [n |-> promoteLocked(n, ref, peb, configType, deprecated),
             ref |-> ref, err |-> ErrNone]
       ELSE addNewLocked(n, addr, protocol, peb, kind, configType, deprecated)

\* addAddressLocked without the check of the kind it is given (lines 583-585).
addAddressLocked_PromotesForAnyKind(n, addr, protocol, peb, kind, configType, deprecated) ==
    LET ref == Lookup(n, addr)
    IN IF ref = NilRef
       THEN addNewLocked(n, addr, protocol, peb, kind, configType, deprecated)
       ELSE IF getKind(n, ref) \in {permanentTentative, permanent}
       THEN [n |-> n, ref |-> NilRef, err |-> ErrDuplicateAddress]
       ELSE IF tryIncRefOk(n, ref)
       THEN [n |-> promoteLocked(n, ref, peb, configType, deprecated),
             ref |-> ref, err |-> ErrNone]
       ELSE addNewLocked(removeEndpointLocked(n, ref), addr, protocol, peb, kind,
                         configType, deprecated)

addAddressLocked(n, addr, protocol, peb, kind, configType, deprecated) ==
    LET ref == Lookup(n, addr)
    IN IF ref = NilRef
       THEN addNewLocked(n, addr, protocol, peb, kind, configType, deprecated)
       ELSE IF kind # permanent
       THEN [n |-> n, ref |-> NilRef, err |-> ErrDuplicateAddress]
       ELSE IF getKind(n, ref) \in {permanentTentative, permanent}
       THEN [n |-> n, ref |-> NilRef, err |-> ErrDuplicateAddress]
       ELSE IF tryIncRefOk(n, ref)
       THEN [n |-> promoteLocked(n, ref, peb, configType, deprecated),
             ref |-> ref, err |-> ErrNone]
       ELSE addNewLocked(removeEndpointLocked(n, ref), addr, protocol, peb, kind,
                         configType, deprecated)

joinGroupLocked(n, protocol, addr) ==
    LET joins == n.mcastJoins[addr]
        r == addAddressLocked(n, addr, protocol, NeverPrimaryEndpoint, permanent,
                              static, FALSE)
    IN IF joins >= MaxJoins THEN [n |-> n, err |-> OutOfBounds]
       ELSE IF joins # 0 THEN [n |-> [n EXCEPT !.mcastJoins[addr] = joins + 1],
                               err |-> ErrNone]
       ELSE IF protocol \notin networkProtocols
       THEN [n |-> n, err |-> ErrUnknownProtocol]
       ELSE IF r.err # ErrNone THEN [n |-> r.n, err |-> r.err]
       ELSE [n |-> [r.n EXCEPT !.mcastJoins[addr] = joins + 1], err |-> ErrNone]

\* --------------------------------------------- removePermanentAddressLocked
RECURSIVE removePermanentAddressLocked(_, _)
RECURSIVE leaveGroupLocked(_, _)

\* removePermanentAddressLocked without the check of the kind (lines 897-900).
removePermanentAddressLocked_AnyKind(n, addr) ==
    LET r == Lookup(n, addr)
        d == decRefLocked(setKind(n, r, permanentExpired), r)
    IN IF r = NilRef THEN [n |-> n, err |-> ErrBadLocalAddress]
       ELSE IF ~d.removed THEN [n |-> d.n, err |-> ErrNone]
       ELSE IF n.cells[r].protocol = IPv6ProtocolNumber /\ IsV6UnicastAddress(addr)
       THEN leaveGroupLocked(d.n, SolicitedNodeAddr(addr))
       ELSE [n |-> d.n, err |-> ErrNone]

\* removePermanentAddressLocked without its decRefLocked (line 918).
removePermanentAddressLocked_KeepsBias(n, addr) ==
    LET r == Lookup(n, addr)
    IN IF r = NilRef THEN [n |-> n, err |-> ErrBadLocalAddress]
       ELSE IF getKind(n, r) # permanent /\ getKind(n, r) # permanentTentative
       THEN [n |-> n, err |-> ErrBadLocalAddress]
       ELSE [n |-> setKind(stopDuplicateAddressDetection(n, addr), r, permanentExpired),
             err |-> ErrNone]

\* removePermanentAddressLocked without its setKind(permanentExpired) (line 917).
removePermanentAddressLocked_StaysPermanent(n, addr) ==
    LET r == Lookup(n, addr)
        kind == getKind(n, r)
        isIPv6Unicast ==
            n.cells[r].protocol = IPv6ProtocolNumber /\ IsV6UnicastAddress(addr)
        n1 == IF isIPv6Unicast /\ kind = permanentTentative
              THEN stopDuplicateAddressDetection(n, addr)
              ELSE n
        n2 == IF isIPv6Unicast /\ n.cells[r].configType = slaac
              THEN cleanupAutoGenAddrResourcesAndNotify(n1, addr)
              ELSE n1
        d == decRefLocked(setKind(n2, r, permanent), r)
    IN IF r = NilRef THEN [n |-> n, err |-> ErrBadLocalAddress]
       ELSE IF kind # permanent /\ kind # permanentTentative
       THEN [n |-> n, err |-> ErrBadLocalAddress]
       ELSE IF ~d.removed THEN [n |-> d.n, err |-> ErrNone]
       ELSE IF isIPv6Unicast THEN leaveGroupLocked(d.n, SolicitedNodeAddr(addr))
       ELSE [n |-> d.n, err |-> ErrNone]

removePermanentAddressLocked(n, addr) ==
    LET r == Lookup(n, addr)
        kind == getKind(n, r)
        isIPv6Unicast ==
            n.cells[r].protocol = IPv6ProtocolNumber /\ IsV6UnicastAddress(addr)
        n1 == IF isIPv6Unicast /\ kind = permanentTentative
              THEN stopDuplicateAddressDetection(n, addr)
              ELSE n
        n2 == IF isIPv6Unicast /\ n.cells[r].configType = slaac
              THEN cleanupAutoGenAddrResourcesAndNotify(n1, addr)
              ELSE n1
        d == decRefLocked(setKind(n2, r, permanentExpired), r)
    IN IF r = NilRef THEN [n |-> n, err |-> ErrBadLocalAddress]
       ELSE IF kind # permanent /\ kind # permanentTentative
       THEN [n |-> n, err |-> ErrBadLocalAddress]
       ELSE IF ~d.removed THEN [n |-> d.n, err |-> ErrNone]
       ELSE IF isIPv6Unicast THEN leaveGroupLocked(d.n, SolicitedNodeAddr(addr))
       ELSE [n |-> d.n, err |-> ErrNone]

\* leaveGroupLocked without the removal of the address at the last leave.
leaveGroupLocked_KeepsAddress(n, addr) ==
    IF n.mcastJoins[addr] = 0 THEN [n |-> n, err |-> ErrBadLocalAddress]
    ELSE [n |-> [n EXCEPT !.mcastJoins[addr] = @ - 1], err |-> ErrNone]

leaveGroupLocked(n, addr) ==
    LET joins == n.mcastJoins[addr]
        r == removePermanentAddressLocked(n, addr)
    IN IF joins = 0 THEN [n |-> n, err |-> ErrBadLocalAddress]
       ELSE IF joins = 1 /\ r.err # ErrNone THEN r
       ELSE IF joins = 1
       THEN [n |-> [r.n EXCEPT !.mcastJoins[addr] = joins - 1], err |-> ErrNone]
       ELSE [n |-> [n EXCEPT !.mcastJoins[addr] = joins - 1], err |-> ErrNone]


\* ------------------------------------------------------------------ enable
hasPermanentAddrLocked(n, addr) ==
    /\ Lookup(n, addr) # NilRef
    /\ getKind(n, Lookup(n, addr)) \in {permanent, permanentTentative}

\* ndp.doSLAAC: the address made of a prefix and the interface identifier is
\* added unless the NIC already has it; it is deprecated when the prefix's
\* preferred lifetime is over.
doSLAAC(n, addr, deprecated) ==
    LET r == addAddressLocked(n, addr, IPv6ProtocolNumber,
                              FirstPrimaryEndpoint, permanent, slaac, deprecated)
    IN IF hasPermanentAddrLocked(n, addr) THEN [n |-> n, err |-> ErrNone]
       ELSE IF r.err # ErrNone THEN [n |-> r.n, err |-> r.err]
       ELSE [n |-> [r.n EXCEPT !.ndp.autoGenAddresses = @ \cup {addr}],
             err |-> ErrNone]

\* Lines 186-201: every permanent IPv6 unicast endpoint goes through DAD again.
enableRestartDAD(n) ==
    LET again == {a \in Addrs :
                    /\ Lookup(n, a) # NilRef
                    /\ getKind(n, Lookup(n, a)) \in {permanent, permanentTentative}
                    /\ IsV6UnicastAddress(a)}
    IN [n EXCEPT !.cells = [r \in CellIds |->
                              IF r.a \in again /\ n.endpoints[r.a] = r.g
                              THEN [@[r] EXCEPT !.kind = permanentTentative]
                              ELSE @[r]],
                 !.ndp.dad = @ \cup again]

\* enable under the write lease without the check of line 151.
enableLocked_NoRecheck(n, opts) ==
    LET n1 == [n EXCEPT !.enabled = TRUE, !.attached = @ + 1]
        b == addAddressLocked(n1, IPv4Broadcast, IPv4ProtocolNumber,
                              NeverPrimaryEndpoint, permanent, static, FALSE)
        n3 == enableRestartDAD(b.n)
        j == joinGroupLocked(n3, IPv6ProtocolNumber, IPv6AllNodesMulticastAddress)
        s == IF opts.autoGenIPv6LinkLocal /\ ~opts.loopback
             THEN doSLAAC(j.n, LinkLocalAddr, FALSE)
             ELSE [n |-> j.n, err |-> ErrNone]
        n4 == IF ~opts.forwarding THEN startSolicitingRouters(s.n) ELSE s.n
    IN IF b.err # ErrNone THEN [n |-> b.n, err |-> b.err]
       ELSE IF j.err # ErrNone THEN [n |-> j.n, err |-> j.err]
       ELSE IF s.err = OutOfBounds THEN [n |-> s.n, err |-> OutOfBounds]
       ELSE [n |-> n4, err |-> ErrNone]

\* enable under the write lease with the flag set and the link endpoint
\* attached only when every step has succeeded.
enableLocked_EnablesLast(n, opts) ==
    LET n1 == [n EXCEPT !.enabled = TRUE, !.attached = @ + 1]
        b == addAddressLocked(n1, IPv4Broadcast, IPv4ProtocolNumber,
                              NeverPrimaryEndpoint, permanent, static, FALSE)
        n2 == IF IPv4ProtocolNumber \in networkProtocols THEN b.n ELSE n1
        n3 == enableRestartDAD(n2)
        j == joinGroupLocked(n3, IPv6ProtocolNumber, IPv6AllNodesMulticastAddress)
        s == IF opts.autoGenIPv6LinkLocal /\ ~opts.loopback
             THEN doSLAAC(j.n, LinkLocalAddr, FALSE)
             ELSE [n |-> j.n, err |-> ErrNone]
        n4 == IF ~opts.forwarding THEN startSolicitingRouters(s.n) ELSE s.n
    IN IF n.enabled THEN [n |-> n, err |-> ErrNone]
       ELSE IF IPv4ProtocolNumber \in networkProtocols /\ b.err # ErrNone
       THEN [n |-> [b.n EXCEPT !.enabled = FALSE, !.attached = n.attached],
             err |-> b.err]
       ELSE IF IPv6ProtocolNumber \notin networkProtocols
       THEN [n |-> n2, err |-> ErrNone]
       ELSE IF j.err # ErrNone
       THEN [n |-> [j.n EXCEPT !.enabled = FALSE, !.attached = n.attached],
             err |-> j.err]
       ELSE IF s.err = OutOfBounds THEN [n |-> s.n, err |-> OutOfBounds]
       ELSE [n |-> n4, err |-> ErrNone]

\* Lines 148-225: enable under the write lease.
enableLocked(n, opts) ==
    LET n1 == [n EXCEPT !.enabled = TRUE, !.attached = @ + 1]
        b == addAddressLocked(n1, IPv4Broadcast, IPv4ProtocolNumber,
                              NeverPrimaryEndpoint, permanent, static, FALSE)
        n2 == IF IPv4ProtocolNumber \in networkProtocols THEN b.n ELSE n1
        n3 == enableRestartDAD(n2)
        j == joinGroupLocked(n3, IPv6ProtocolNumber, IPv6AllNodesMulticastAddress)
        s == IF opts.autoGenIPv6LinkLocal /\ ~opts.loopback
             THEN doSLAAC(j.n, LinkLocalAddr, FALSE)
             ELSE [n |-> j.n, err |-> ErrNone]
        n4 == IF ~opts.forwarding THEN startSolicitingRouters(s.n) ELSE s.n
    IN IF n.enabled THEN [n |-> n, err |-> ErrNone]
       ELSE IF IPv4ProtocolNumber \in networkProtocols /\ b.err # ErrNone
       THEN [n |-> b.n, err |-> b.err]
       ELSE IF IPv6ProtocolNumber \notin networkProtocols
       THEN [n |-> n2, err |-> ErrNone]
       ELSE IF j.err # ErrNone THEN [n |-> j.n, err |-> j.err]
       ELSE IF s.err = OutOfBounds THEN [n |-> s.n, err |-> OutOfBounds]
       ELSE [n |-> n4, err |-> ErrNone]

\* ------------------------------------------------------ getRefOrCreateTemp
spoofingOrPromiscuous(n, tempRef) ==
    CASE tempRef = spoofing -> n.spoofing
      [] tempRef = promiscuous -> n.promiscuous
      [] OTHER -> TRUE

\* Lines 509-527: whether a temporary endpoint is to be created.
createTempEP(n, address, tempRef) ==
    \/ spoofingOrPromiscuous(n, tempRef)
    \/ \E i \in 1..Len(n.addressRanges) :
          /\ address # SubnetID(n.addressRanges[i])
          /\ address # SubnetBroadcast(n.addressRanges[i])
          /\ SubnetContains(n.addressRanges[i], address)

\* Lines 478-533, under the read lease. "done" says that the call returned here
\* (with ref, NilRef for nil); otherwise it goes on under the write lease.
getRefRLocked(n, address, tempRef) ==
    LET ref == Lookup(n, address)
        usable ==
            /\ ref # NilRef
            /\ getKind(n, ref) \in {permanentExpired, temporary, permanent}
    IN IF usable /\ getKind(n, ref) = permanentExpired
                 /\ ~spoofingOrPromiscuous(n, tempRef)
       THEN [n |-> n, ref |-> NilRef, done |-> TRUE]
       ELSE IF usable /\ tryIncRefOk(n, ref)
       THEN [n |-> tryIncRef(n, ref), ref |-> ref, done |-> TRUE]
       ELSE IF ~createTempEP(n, address, tempRef)
       THEN [n |-> n, ref |-> NilRef, done |-> TRUE]
       ELSE [n |-> n, ref |-> NilRef, done |-> FALSE]

\* Lines 538-567, under the write lease.
getRefLocked(n, protocol, address, peb) ==
    LET ref == Lookup(n, address)
        n1 == IF ref # NilRef THEN removeEndpointLocked(n, ref) ELSE n
        r == addAddressLocked(n1, address, protocol, peb, temporary, static, FALSE)
    IN IF ref # NilRef /\ tryIncRefOk(n, ref)
       THEN [n |-> tryIncRef(n, ref), ref |-> ref, err |-> ErrNone]
       ELSE IF n1.panicked # "" THEN [n |-> n1, ref |-> NilRef, err |-> ErrNone]
       ELSE IF protocol \notin networkProtocols
       THEN [n |-> n1, ref |-> NilRef, err |-> ErrNone]
       ELSE r

\* --------------------------------------------------------- primaryEndpoint
\* The loop of lines 298-324 from position i of view, the slice the range
\* statement copied, up to the point where it returns ("done") or has just
\* taken a reference on a deprecated endpoint to keep track of it.
RECURSIVE walkPrimary(_, _, _, _)

\* The loop without the decRefLocked of line 310: the reference on the
\* deprecated endpoint it kept track of stays when another is returned.
walkPrimary_KeepsDeprecated(n, view, i, dep) ==
    IF i > Len(view) THEN [n |-> n, ref |-> dep, done |-> TRUE, i |-> i, dep |-> dep]
    ELSE LET r == view[i]
         IN IF ~isValidForOutgoingRLocked(n, r) THEN walkPrimary(n, view, i + 1, dep)
            ELSE IF ~n.cells[r].deprecated
            THEN IF tryIncRefOk(n, r)
                 THEN [n |-> tryIncRef(n, r),
                       ref |-> r, done |-> TRUE, i |-> i, dep |-> NilRef]
                 ELSE walkPrimary(n, view, i + 1, dep)
            ELSE IF dep = NilRef /\ tryIncRefOk(n, r)
            THEN [n |-> tryIncRef(n, r), ref |-> NilRef, done |-> FALSE,
                  i |-> i + 1, dep |-> r]
            ELSE walkPrimary(n, view, i + 1, dep)

walkPrimary(n, view, i, dep) ==
    IF i > Len(view) THEN [n |-> n, ref |-> dep, done |-> TRUE, i |-> i, dep |-> dep]
    ELSE LET r == view[i]
         IN IF ~isValidForOutgoingRLocked(n, r) THEN walkPrimary(n, view, i + 1, dep)
            ELSE IF ~n.cells[r].deprecated
            THEN IF tryIncRefOk(n, r)
                 THEN [n |-> IF dep # NilRef
                             THEN decRefLocked(tryIncRef(n, r), dep).n
                             ELSE tryIncRef(n, r),
                       ref |-> r, done |-> TRUE, i |-> i, dep |-> NilRef]
                 ELSE walkPrimary(n, view, i + 1, dep)
            ELSE IF dep = NilRef /\ tryIncRefOk(n, r)
            THEN [n |-> tryIncRef(n, r), ref |-> NilRef, done |-> FALSE,
                  i |-> i + 1, dep |-> r]
            ELSE walkPrimary(n, view, i + 1, dep)

\* What a slice of the primary list reads after removeEndpointLocked cut
\* position k out of the list, then m long, in the array they share.
ShiftView(view, k, m) ==
    IF k = 0 \/ m > Len(view) THEN view
    ELSE CutAt(SubSeq(view, 1, m), k) \o SubSeq(view, m, Len(view))

\* The comparator with a rule 2 that prefers the smaller scope.
Less_SmallerScope(n, cs, i, j, remoteAddr) ==
    LET sa == cs[i]
        sb == cs[j]
        saScope == ScopeForIPv6Address(sa.a)
        sbScope == ScopeForIPv6Address(sb.a)
    IN IF sa.a = remoteAddr THEN TRUE
       ELSE IF sb.a = remoteAddr THEN FALSE
       ELSE IF saScope # sbScope THEN saScope < sbScope
       ELSE IF n.cells[sa].deprecated # n.cells[sb].deprecated
       THEN n.cells[sb].deprecated
       ELSE i < j

\* The comparator of lines 388-416 for positions i and j of cs.
Less(n, cs, i, j, remoteAddr) ==
    LET sa == cs[i]
        sb == cs[j]
        saScope == ScopeForIPv6Address(sa.a)
        sbScope == ScopeForIPv6Address(sb.a)
        remoteScope == ScopeForIPv6Address(remoteAddr)
    IN IF sa.a = remoteAddr THEN TRUE
       ELSE IF sb.a = remoteAddr THEN FALSE
       ELSE IF saScope < sbScope THEN saScope >= remoteScope
       ELSE IF sbScope < saScope THEN sbScope < remoteScope
       ELSE IF n.cells[sa].deprecated # n.cells[sb].deprecated
       THEN n.cells[sb].deprecated
       ELSE i < j

\* sort.Slice (line 388) on a slice of at most 12 elements ends with an
\* insertion sort: each element moves towards the front while it is Less than
\* the one before it.
RECURSIVE insertBack(_, _, _, _)
insertBack(n, cs, j, remoteAddr) ==
    IF j > 1 /\ Less(n, cs, j, j - 1, remoteAddr)
    THEN insertBack(n, [cs EXCEPT ![j] = cs[j - 1], ![j - 1] = cs[j]], j - 1,
                    remoteAddr)
    ELSE cs

RECURSIVE insertionSort(_, _, _, _)
insertionSort(n, cs, i, remoteAddr) ==
    IF i > Len(cs) THEN cs
    ELSE insertionSort(n, insertBack(n, cs, i, remoteAddr), i + 1, remoteAddr)

\* sort.Slice (line 388) on a slice of 7 to 12 elements starts with a pass
\* of gap 6: each element from the seventh on changes places with the one six
\* places before it when it is Less.
RECURSIVE shellPass(_, _, _, _)
shellPass(n, cs, i, remoteAddr) ==
    IF i > Len(cs) THEN cs
    ELSE shellPass(n,
                   IF Less(n, cs, i, i - 6, remoteAddr)
                   THEN [cs EXCEPT ![i] = cs[i - 6], ![i - 6] = cs[i]]
                   ELSE cs,
                   i + 1, remoteAddr)

\* sort.Slice (line 388) for a slice of at most 12 elements.
sortSlice(n, cs, remoteAddr) ==
    insertionSort(n, shellPass(n, cs, 7, remoteAddr), 2, remoteAddr)

\* Lines 358-377: the endpoints of s that are valid for outgoing, in order.
RECURSIVE SelectValid(_, _)
SelectValid(n, s) ==
    IF s = <<>> THEN <<>>
    ELSE IF isValidForOutgoingRLocked(n, Head(s))
    THEN <<Head(s)>> \o SelectValid(n, Tail(s))
    ELSE SelectValid(n, Tail(s))

\* The first element of cs whose tryIncRef succeeds, NilRef when none does.
RECURSIVE firstAlive(_, _)
firstAlive(n, cs) ==
    IF cs = <<>> THEN NilRef
    ELSE IF tryIncRefOk(n, Head(cs)) THEN Head(cs)
    ELSE firstAlive(n, Tail(cs))

\* The candidates of primaryIPv6Endpoint in the order of preference.
ipv6Candidates(n, remoteAddr) ==
    sortSlice(n, SelectValid(n, n.primary[IPv6ProtocolNumber]), remoteAddr)

primaryIPv6Endpoint(n, remoteAddr) ==
    LET r == firstAlive(n, ipv6Candidates(n, remoteAddr))
    IN [n |-> IF r = NilRef THEN n ELSE tryIncRef(n, r), ref |-> r]

\* ----------------------------------------------------------------- queries
\* AllAddresses without the case for temporary endpoints.
AllAddresses_WithTemporary(n) ==
    {[protocol |-> n.cells[Lookup(n, a)].protocol, address |-> a] :
        a \in {b \in Addrs : /\ Lookup(n, b) # NilRef
                              /\ getKind(n, Lookup(n, b)) # permanentExpired}}

\* AllAddresses: the range over n.mu.endpoints, whose order is not fixed.
AllAddresses(n) ==
    {[protocol |-> n.cells[Lookup(n, a)].protocol, address |-> a] :
        a \in {b \in Addrs :
                  /\ Lookup(n, b) # NilRef
                  /\ getKind(n, Lookup(n, b)) \notin {permanentExpired, temporary}}}

\* PrimaryAddresses: the range over n.mu.primary, whose order is not fixed.
PrimaryAddresses(n) ==
    UNION {{[protocol |-> proto, address |-> n.primary[proto][i].a] :
               i \in {j \in 1..Len(n.primary[proto]) :
                         getKind(n, n.primary[proto][j]) \notin
                             {permanentTentative, permanentExpired, temporary}}} :
           proto \in networkProtocols}

\* The loop of primaryAddress (lines 769-787) from position i of list;
\* NilRef stands for no endpoint.
RECURSIVE primaryAddressLoop(_, _, _, _)
primaryAddressLoop(n, list, i, deprecatedEndpoint) ==
    IF i > Len(list) THEN deprecatedEndpoint
    ELSE IF getKind(n, list[i]) \in {permanentTentative, permanentExpired, temporary}
    THEN primaryAddressLoop(n, list, i + 1, deprecatedEndpoint)
    ELSE IF ~n.cells[list[i]].deprecated THEN list[i]
    ELSE primaryAddressLoop(n, list, i + 1,
                            IF deprecatedEndpoint = NilRef THEN list[i]
                            ELSE deprecatedEndpoint)

\* primaryAddress: the address found, NilAddr for the empty value.
primaryAddress(n, proto) ==
    IF proto \notin DOMAIN n.primary THEN NilAddr
    ELSE primaryAddressLoop(n, n.primary[proto], 1, NilRef).a

\* --------------------------------------------------------------- the heap
\* A cell that the table no longer maps and that nothing refers to is garbage;
\* its slot holds no cell any more.
Collect(n, h, pend, lc) ==
    [n EXCEPT !.cells = [r \in CellIds |->
        IF /\ n.cells[r].used
           /\ n.endpoints[r.a] # r.g
           /\ h[r] = 0
           /\ r \notin pend
           /\ \A t \in Threads :
                 /\ lc[t].dep # r
                 /\ \A i \in 1..Len(lc[t].view) : lc[t].view[i] # r
        THEN FreeCell
        ELSE n.cells[r]]]

\* -------------------------------------------------------------------- Init
StackOptions == [autoGenIPv6LinkLocal : BOOLEAN, forwarding : {FALSE}, loopback : {FALSE}]

Init ==
    /\ nic = NewNIC
    /\ handles = [r \in CellIds |-> 0]
    /\ pendingRemove = {}
    /\ pc = [t \in Threads |-> "idle"]
    /\ loc = [t \in Threads |-> NoLoc]

\* The process has not died of a panic.
Running == nic.panicked = ""

\* Thread t can start an operation: it is the first thread that runs none.
Idle(t) == Running /\ pc[t] = "idle" /\ \A u \in 1..(t - 1) : pc[u] # "idle"

\* No walk of a primary list holds the read lease.
WriteLeaseFree == \A t \in Threads : pc[t] # "primaryEndpoint"

\* The result of a section run under the write lease.
Locked(n, err) ==
    /\ WriteLeaseFree
    /\ err # OutOfBounds
    /\ nic' = Collect(n, handles, pendingRemove, loc)
    /\ UNCHANGED <<handles, pendingRemove, pc, loc>>

\* ----------------------------------------------------------------- actions
AddAddress(addr, peb) ==
    LET r == addAddressLocked(nic, addr, ProtoOf(addr), peb, permanent, static, FALSE)
    IN /\ Running
       /\ Locked(r.n, r.err)

RemoveAddress(addr) ==
    LET r == removePermanentAddressLocked(nic, addr)
    IN /\ Running
       /\ Locked(r.n, r.err)

joinGroup(addr) ==
    LET r == joinGroupLocked(nic, ProtoOf(addr), addr)
    IN /\ Running
       /\ Locked(r.n, r.err)

leaveGroup(addr) ==
    LET r == leaveGroupLocked(nic, addr)
    IN /\ Running
       /\ Locked(r.n, r.err)

setPromiscuousMode(enable) ==
    /\ Running
    /\ nic.promiscuous # enable
    /\ Locked([nic EXCEPT !.promiscuous = enable], ErrNone)

setSpoofing(enable) ==
    /\ Running
    /\ nic.spoofing # enable
    /\ Locked([nic EXCEPT !.spoofing = enable], ErrNone)

\* dupTentativeAddrDetected: DAD found addr in use on the link.
dupTentativeAddrDetected(addr) ==
    LET ref == Lookup(nic, addr)
        r == removePermanentAddressLocked(nic, addr)
    IN /\ Running
       /\ IF ref = NilRef THEN Locked(nic, ErrBadAddress)
          ELSE IF getKind(nic, ref) # permanentTentative
          THEN Locked(nic, ErrInvalidEndpointState)
          ELSE Locked(r.n, r.err)

\* DAD for addr ended without a duplicate: the tentative endpoint becomes permanent.
dadSuccess(addr) ==
    /\ Running
    /\ addr \in nic.ndp.dad
    /\ LET ref == Lookup(nic, addr)
           n1 == stopDuplicateAddressDetection(nic, addr)
       IN IF ref # NilRef /\ getKind(nic, ref) = permanentTentative
          THEN Locked(setKind(n1, ref, permanent), ErrNone)
          ELSE Locked(n1, ErrNone)

\* enable. The check under the read lease (lines 141-146) is made again under
\* the write lease (line 151), so the call is its write section; opts is what
\* it reads of the owning stack.
enable(opts) ==
    LET r == enableLocked(nic, opts)
    IN /\ Running
       /\ Locked(r.n, r.err)

\* enable, lines 141-146: the check of n.mu.enabled under the read lease.
enableRLocked(t) ==
    /\ Idle(t)
    /\ pc' = IF nic.enabled THEN pc ELSE [pc EXCEPT ![t] = "enable"]
    /\ UNCHANGED <<nic, handles, pendingRemove, loc>>

\* enable, lines 148-225: the check made again and the rest, under the write
\* lease; opts is what it reads of the owning stack.
enableWLocked(t, opts) ==
    LET r == enableLocked(nic, opts)
    IN /\ Running
       /\ pc[t] = "enable"
       /\ WriteLeaseFree
       /\ r.err # OutOfBounds
       /\ pc' = [pc EXCEPT ![t] = "idle"]
       /\ nic' = Collect(r.n, handles, pendingRemove, loc)
       /\ UNCHANGED <<handles, pendingRemove, loc>>

\* A call that returns ref to its caller, who holds it from now on.
Returned(ref) ==
    /\ ref # NilRef => handles[ref] < MaxHandles
    /\ handles' = IF ref = NilRef THEN handles ELSE [handles EXCEPT ![ref] = @ + 1]

\* getRefOrCreateTemp under the read lease.
getRefOrCreateTemp(t, address, peb, tempRef) ==
    /\ Idle(t)
    /\ LET r == getRefRLocked(nic, address, tempRef)
       IN IF r.done
          THEN /\ Returned(r.ref)
               /\ nic' = r.n
               /\ UNCHANGED <<pc, loc>>
          ELSE /\ pc' = [pc EXCEPT ![t] = "getRefOrCreateTemp"]
               /\ loc' = [loc EXCEPT ![t] = [NoLoc EXCEPT !.addr = address,
                                                         !.protocol = ProtoOf(address),
                                                         !.peb = peb,
                                                         !.spoofingOrPromiscuous =
                                                             spoofingOrPromiscuous(nic, tempRef)]]
               /\ UNCHANGED <<nic, handles>>
    /\ UNCHANGED pendingRemove

\* getRefOrCreateTemp under the write lease.
getRefOrCreateTempLocked(t) ==
    /\ Running
    /\ pc[t] = "getRefOrCreateTemp"
    /\ WriteLeaseFree
    /\ LET r == getRefLocked(nic, loc[t].protocol, loc[t].addr, loc[t].peb)
       IN /\ r.err # OutOfBounds
          /\ Returned(r.ref)
          /\ pc' = [pc EXCEPT ![t] = "idle"]
          /\ loc' = [loc EXCEPT ![t] = NoLoc]
          /\ nic' = Collect(r.n, handles', pendingRemove, loc')
    /\ UNCHANGED pendingRemove

\* The lookup of the forwarding path on the route's NIC (lines 1103-1106).
forwardLookup(dst) ==
    LET ref == Lookup(nic, dst)
        ok == ref # NilRef /\ isValidForOutgoingRLocked(nic, ref) /\ tryIncRefOk(nic, ref)
    IN /\ Running
       /\ Returned(IF ok THEN ref ELSE NilRef)
       /\ nic' = IF ok THEN tryIncRef(nic, ref) ELSE nic
       /\ UNCHANGED <<pendingRemove, pc, loc>>

\* incRef by a caller that holds a reference (a route that is cloned).
cloneRef(r) ==
    /\ Running
    /\ handles[r] > 0
    /\ handles[r] < MaxHandles
    /\ nic' = incRef(nic, r)
    /\ handles' = [handles EXCEPT ![r] = @ + 1]
    /\ UNCHANGED <<pendingRemove, pc, loc>>

\* decRef: the atomic decrement; at zero the caller goes on to removeEndpoint.
decRef(r) ==
    /\ Running
    /\ handles[r] > 0
    /\ handles' = [handles EXCEPT ![r] = @ - 1]
    /\ nic' = [nic EXCEPT !.cells[r].refs = @ - 1]
    /\ pendingRemove' = IF nic'.cells[r].refs = 0 THEN pendingRemove \cup {r}
                        ELSE pendingRemove
    /\ UNCHANGED <<pc, loc>>

\* removeEndpoint: the removal decRef asked for, once it has the write lease.
removeEndpoint(r) ==
    /\ Running
    /\ r \in pendingRemove
    /\ WriteLeaseFree
    /\ pendingRemove' = pendingRemove \ {r}
    /\ nic' = Collect(removeEndpointLocked(nic, r), handles, pendingRemove', loc)
    /\ UNCHANGED <<handles, pc, loc>>

\* primaryEndpoint: the generic walk from its start, or primaryIPv6Endpoint.
primaryEndpoint(t, protocol, remoteAddr) ==
    /\ Idle(t)
    /\ IF protocol = IPv6ProtocolNumber /\ remoteAddr # NilAddr
       THEN LET r == primaryIPv6Endpoint(nic, remoteAddr)
            IN /\ Returned(r.ref)
               /\ nic' = r.n
               /\ UNCHANGED <<pc, loc>>
       ELSE LET w == walkPrimary(nic, nic.primary[protocol], 1, NilRef)
            IN IF w.done
               THEN /\ Returned(w.ref)
                    /\ nic' = w.n
                    /\ UNCHANGED <<pc, loc>>
               ELSE /\ pc' = [pc EXCEPT ![t] = "primaryEndpoint"]
                    /\ loc' = [loc EXCEPT ![t] =
                                  [NoLoc EXCEPT !.protocol = protocol,
                                                !.view = nic.primary[protocol],
                                                !.i = w.i, !.dep = w.dep]]
                    /\ nic' = w.n
                    /\ UNCHANGED handles
    /\ UNCHANGED pendingRemove

\* primaryEndpoint for a caller when no reference is held by any caller.
primaryEndpointAlone(t, protocol, remoteAddr) ==
    /\ \A r \in CellIds : handles[r] = 0
    /\ primaryEndpoint(t, protocol, remoteAddr)

\* primaryEndpoint: the walk goes on while it keeps track of a deprecated
\* endpoint. Its decRefLocked (line 310) runs under the read lease: what it
\* cuts out of the primary list moves under the other walks of the list.
primaryEndpointResume(t) ==
    /\ Running
    /\ pc[t] = "primaryEndpoint"
    /\ LET p == loc[t].protocol
           w == walkPrimary(nic, loc[t].view, loc[t].i, loc[t].dep)
           k == IF Len(w.n.primary[p]) < Len(nic.primary[p])
                THEN IndexOf(nic.primary[p], loc[t].dep)
                ELSE 0
           shifted == [u \in Threads |->
                         IF u # t /\ pc[u] = "primaryEndpoint" /\ loc[u].protocol = p
                         THEN [loc[u] EXCEPT
                                  !.view = ShiftView(@, k, Len(nic.primary[p]))]
                         ELSE loc[u]]
       IN IF w.done
          THEN /\ Returned(w.ref)
               /\ pc' = [pc EXCEPT ![t] = "idle"]
               /\ loc' = [shifted EXCEPT ![t] = NoLoc]
               /\ nic' = Collect(w.n, handles', pendingRemove, loc')
          ELSE /\ pc' = pc
               /\ loc' = [shifted EXCEPT ![t].i = w.i, ![t].dep = w.dep]
               /\ nic' = w.n
               /\ UNCHANGED handles
    /\ UNCHANGED pendingRemove

\* A slice of packet endpoints is the part of its array up to its length:
\* n.packetEPs[p] is the slice the NIC has for p and n.packetEPsTail[p] is
\* what its array holds behind it. The zero value of the array's elements:
NilPacketEndpoint == ""

\* The array of the slice the NIC has for netProto.
arrayOf(n, netProto) == n.packetEPs[netProto] \o n.packetEPsTail[netProto]

\* The capacity append gives the array it allocates for a slice of capacity c
\* that has to grow by one element.
growCap(c) == IF c = 0 THEN 1 ELSE 2 * c

\* append(eps, ep) for the slice of netProto: in place when the array has
\* room, else into a new array.
appendPacketEP(n, netProto, ep) ==
    LET eps == n.packetEPs[netProto]
        tail == n.packetEPsTail[netProto]
    IN IF tail # <<>>
       THEN [n EXCEPT !.packetEPs[netProto] = Append(eps, ep),
                      !.packetEPsTail[netProto] = Tail(tail)]
       ELSE [n EXCEPT !.packetEPs[netProto] = Append(eps, ep),
                      !.packetEPsTail[netProto] =
                          [k \in 1..(growCap(Len(eps)) - Len(eps) - 1) |->
                              NilPacketEndpoint]]

\* The locals of the threads once the slice of netProto has a new array: a
\* slice that shares the old array keeps it, and nothing writes to it again.
keepArray(n, lc, netProto) ==
    [u \in Threads |->
        IF lc[u].alias = netProto
        THEN [lc[u] EXCEPT !.alias = "",
                           !.packetEPs = SubSeq(arrayOf(n, netProto), 1, Len(@))]
        ELSE lc[u]]

\* registerPacketEndpoint: ep is appended to the list of netProto.
registerPacketEndpoint(netProto, ep) ==
    /\ Running
    /\ netProto \in DOMAIN nic.packetEPs
    /\ Len(nic.packetEPs[netProto]) < MaxPacketEPs
    /\ WriteLeaseFree
    /\ loc' = IF nic.packetEPsTail[netProto] = <<>>
              THEN keepArray(nic, loc, netProto)
              ELSE loc
    /\ nic' = Collect(appendPacketEP(nic, netProto, ep), handles, pendingRemove, loc')
    /\ UNCHANGED <<handles, pendingRemove, pc>>

\* unregisterPacketEndpoint: the first occurrence of ep leaves the list;
\* append(eps[:i], eps[i+1:]...) moves the elements behind it one place to the
\* front in the array, whose last element stays where it was.
unregisterPacketEndpoint(netProto, ep) ==
    LET eps == nic.packetEPs[netProto]
        i == IndexOf(eps, ep)
    IN /\ Running
       /\ netProto \in DOMAIN nic.packetEPs
       /\ i # 0
       /\ Locked([nic EXCEPT !.packetEPs[netProto] = CutAt(eps, i),
                             !.packetEPsTail[netProto] = <<eps[Len(eps)]>> \o @],
                 ErrNone)

\* NetworkProtocol.MinimumPacketSize, in the unit of the model's packets.
MinimumPacketSize == 2

\* Lines 1054-1060: the packet endpoints a packet of protocol goes to.
fanOut(n, protocol) ==
    IF protocol # EthernetProtocolAll
    THEN n.packetEPs[protocol] \o n.packetEPs[EthernetProtocolAll]
    ELSE n.packetEPs[protocol]

\* Lines 1032-1033.
countDisabledRx(n, pkt) ==
    [n EXCEPT !.stats.DisabledRx.Packets = @ + 1,
              !.stats.DisabledRx.Bytes = @ + pkt.size]

\* countDisabledRx that counts the packet as received as well.
deliverStart_CountsRxFirst(n, pkt) ==
    LET n1 == [n EXCEPT !.stats.Rx.Packets = @ + 1, !.stats.Rx.Bytes = @ + pkt.size]
        n2 == [n1 EXCEPT !.calls.packetEP = @ + Len(fanOut(n, pkt.protocol)),
                         !.stackStats.PacketsReceived = @ + 1]
    IN IF ~n.enabled THEN [n |-> countDisabledRx(n1, pkt), returned |-> TRUE]
       ELSE IF pkt.protocol \notin networkProtocols
       THEN [n |-> [n1 EXCEPT !.stackStats.UnknownProtocolRcvdPackets = @ + 1],
             returned |-> TRUE]
       ELSE IF pkt.size < MinimumPacketSize
       THEN [n |-> [n2 EXCEPT !.stackStats.MalformedRcvdPackets = @ + 1],
             returned |-> TRUE]
       ELSE [n |-> n2, returned |-> FALSE]

\* DeliverNetworkPacket, lines 1026-1073: up to the parsing of the addresses.
\* "returned" says that the call returned here.
deliverStart(n, pkt) ==
    LET n1 == [n EXCEPT !.stats.Rx.Packets = @ + 1, !.stats.Rx.Bytes = @ + pkt.size]
        n2 == [n1 EXCEPT !.calls.packetEP = @ + Len(fanOut(n, pkt.protocol)),
                         !.stackStats.PacketsReceived = @ + 1]
    IN IF ~n.enabled THEN [n |-> countDisabledRx(n, pkt), returned |-> TRUE]
       ELSE IF pkt.protocol \notin networkProtocols
       THEN [n |-> [n1 EXCEPT !.stackStats.UnknownProtocolRcvdPackets = @ + 1],
             returned |-> TRUE]
       ELSE IF pkt.size < MinimumPacketSize
       THEN [n |-> [n2 EXCEPT !.stackStats.MalformedRcvdPackets = @ + 1],
             returned |-> TRUE]
       ELSE [n |-> n2, returned |-> FALSE]

\* The packets the link endpoint has handed to the NIC.
Delivered(n) == n.stats.Rx.Packets + n.stats.DisabledRx.Packets

DeliverNetworkPacket(t, pkt) ==
    LET d == deliverStart(nic, pkt)
    IN /\ Idle(t)
       /\ Delivered(nic) < MaxPackets
       /\ nic' = d.n
       /\ pc' = IF d.returned THEN pc ELSE [pc EXCEPT ![t] = "deliverSource"]
       /\ loc' = IF d.returned THEN loc
                 ELSE [loc EXCEPT ![t] =
                          [NoLoc EXCEPT !.pkt = pkt,
                                        !.packetEPs = fanOut(nic, pkt.protocol)]]
       /\ UNCHANGED <<handles, pendingRemove>>

\* Lines 1054-1060 with the arrays: packetEPs := n.mu.packetEPs[protocol] and
\* the append of the endpoints for every protocol. append writes behind the
\* length of packetEPs when its array has room for them and the result shares
\* that array ("alias"); it returns packetEPs itself when there are none.
appendAll(n, protocol) ==
    LET all == n.packetEPs[EthernetProtocolAll]
        tail == n.packetEPsTail[protocol]
    IN IF protocol = EthernetProtocolAll \/ Len(all) = 0
       THEN [n |-> n, alias |-> protocol, eps |-> n.packetEPs[protocol]]
       ELSE IF Len(all) <= Len(tail)
       THEN [n |-> [n EXCEPT !.packetEPsTail[protocol] =
                                all \o SubSeq(tail, Len(all) + 1, Len(tail))],
             alias |-> protocol, eps |-> n.packetEPs[protocol] \o all]
       ELSE [n |-> n, alias |-> "", eps |-> n.packetEPs[protocol] \o all]

\* DeliverNetworkPacket, lines 1026-1061: up to the release of the read lease.
deliverRLocked(t, pkt) ==
    LET n1 == [nic EXCEPT !.stats.Rx.Packets = @ + 1, !.stats.Rx.Bytes = @ + pkt.size]
        a == appendAll(n1, pkt.protocol)
    IN /\ Idle(t)
       /\ Delivered(nic) < MaxPackets
       /\ IF ~nic.enabled
          THEN nic' = countDisabledRx(nic, pkt) /\ UNCHANGED <<pc, loc>>
          ELSE IF pkt.protocol \notin networkProtocols
          THEN /\ nic' = [n1 EXCEPT !.stackStats.UnknownProtocolRcvdPackets = @ + 1]
               /\ UNCHANGED <<pc, loc>>
          ELSE /\ nic' = a.n
               /\ pc' = [pc EXCEPT ![t] = "deliverPacketEPs"]
               /\ loc' = [loc EXCEPT ![t] =
                             [NoLoc EXCEPT !.pkt = pkt, !.packetEPs = a.eps,
                                           !.alias = a.alias, !.i = 1,
                                           !.snap = fanOut(nic, pkt.protocol)]]
       /\ UNCHANGED <<handles, pendingRemove>>

\* Element i of the slice packetEPs of a thread with the locals lc.
packetEPAt(n, lc, i) ==
    IF lc.alias = "" THEN lc.packetEPs[i] ELSE arrayOf(n, lc.alias)[i]

\* Lines 1062-1064: one turn of the loop, ep.HandlePacket for the next element
\* of packetEPs, outside the lease.
deliverPacketEP(t) ==
    /\ Running
    /\ pc[t] = "deliverPacketEPs"
    /\ loc[t].i <= Len(loc[t].packetEPs)
    /\ nic' = [nic EXCEPT !.calls.packetEP = @ + 1]
    /\ loc' = [loc EXCEPT ![t].i = @ + 1,
                          ![t].called = Append(@, packetEPAt(nic, loc[t], loc[t].i))]
    /\ UNCHANGED <<handles, pendingRemove, pc>>

\* Lines 1066-1073: after the loop, the count of the packets received and the
\* check of the packet's size.
deliverParse(t) ==
    LET n1 == [nic EXCEPT !.stackStats.PacketsReceived = @ + 1]
    IN /\ Running
       /\ pc[t] = "deliverPacketEPs"
       /\ loc[t].i > Len(loc[t].packetEPs)
       /\ IF loc[t].pkt.size < MinimumPacketSize
          THEN /\ nic' = [n1 EXCEPT !.stackStats.MalformedRcvdPackets = @ + 1]
               /\ pc' = [pc EXCEPT ![t] = "idle"]
               /\ loc' = [loc EXCEPT ![t] = NoLoc]
          ELSE /\ nic' = n1
               /\ pc' = [pc EXCEPT ![t] = "deliverSource"]
               /\ loc' = [loc EXCEPT ![t] =
                             [NoLoc EXCEPT !.pkt = loc[t].pkt,
                                           !.packetEPs = loc[t].packetEPs]]
       /\ UNCHANGED <<handles, pendingRemove>>

\* The call of DeliverNetworkPacket by thread t returns.
deliverReturn(t) ==
    /\ pc' = [pc EXCEPT ![t] = "idle"]
    /\ loc' = [loc EXCEPT ![t] = NoLoc]

\* Thread t goes on at label with the reference ref in hand.
deliverGoto(t, label, ref) ==
    /\ pc' = [pc EXCEPT ![t] = label]
    /\ loc' = [loc EXCEPT ![t].dep = ref]

countInvalidSource(n) ==
    [n EXCEPT !.stackStats.InvalidSourceAddressesReceived = @ + 1]

countInvalidDestination(n) ==
    [n EXCEPT !.stackStats.InvalidDestinationAddressesReceived = @ + 1]

\* handlePacket and lines 1112-1113 up to the decRef: the endpoint gets the packet.
callHandlePacket(n) == [n EXCEPT !.calls.HandlePacket = @ + 1]

\* n.stack.FindRoute (line 1095) has returned a route.
FindRoute(n) == [n EXCEPT !.calls.FindRoute = @ + 1]

\* r.Release() (line 1130).
Release(n) == [n EXCEPT !.calls.Release = @ + 1]

\* Lines 1077-1084: n.getRef(protocol, src) under the read lease, when the
\* stack handles local packets and the NIC is not a loopback.
deliverSource(t, handleLocal, loopback) ==
    LET r == getRefRLocked(nic, loc[t].pkt.src, promiscuous)
    IN /\ Running
       /\ pc[t] = "deliverSource"
       /\ IF ~(handleLocal /\ ~loopback)
          THEN nic' = nic /\ deliverGoto(t, "deliverLocal", NilRef)
          ELSE IF ~r.done
          THEN nic' = nic /\ deliverGoto(t, "deliverSourceLocked", NilRef)
          ELSE IF r.ref # NilRef
          THEN nic' = countInvalidSource(r.n) /\ deliverReturn(t)
          ELSE nic' = r.n /\ deliverGoto(t, "deliverLocal", NilRef)
       /\ UNCHANGED <<handles, pendingRemove>>

\* Lines 1077-1084: n.getRef(protocol, src) under the write lease.
deliverSourceLocked(t) ==
    LET r == getRefLocked(nic, loc[t].pkt.protocol, loc[t].pkt.src,
                          CanBePrimaryEndpoint)
    IN /\ Running
       /\ pc[t] = "deliverSourceLocked"
       /\ WriteLeaseFree
       /\ r.err # OutOfBounds
       /\ IF r.ref # NilRef
          THEN /\ deliverReturn(t)
               /\ nic' = Collect(countInvalidSource(r.n), handles, pendingRemove, loc')
          ELSE /\ deliverGoto(t, "deliverLocal", NilRef)
               /\ nic' = Collect(r.n, handles, pendingRemove, loc')
       /\ UNCHANGED <<handles, pendingRemove>>

\* Lines 1085-1088: n.getRef(protocol, dst) under the read lease and, when it
\* finds an endpoint, handlePacket up to its decRef.
deliverLocal(t) ==
    LET r == getRefRLocked(nic, loc[t].pkt.dst, promiscuous)
    IN /\ Running
       /\ pc[t] = "deliverLocal"
       /\ IF ~r.done
          THEN nic' = nic /\ deliverGoto(t, "deliverLocalLocked", NilRef)
          ELSE IF r.ref # NilRef
          THEN nic' = callHandlePacket(r.n) /\ deliverGoto(t, "handlePacket", r.ref)
          ELSE nic' = r.n /\ deliverGoto(t, "deliverForward", NilRef)
       /\ UNCHANGED <<handles, pendingRemove>>

\* Lines 1085-1088: n.getRef(protocol, dst) under the write lease.
deliverLocalLocked(t) ==
    LET r == getRefLocked(nic, loc[t].pkt.protocol, loc[t].pkt.dst,
                          CanBePrimaryEndpoint)
    IN /\ Running
       /\ pc[t] = "deliverLocalLocked"
       /\ WriteLeaseFree
       /\ r.err # OutOfBounds
       /\ IF r.ref # NilRef
          THEN /\ deliverGoto(t, "handlePacket", r.ref)
               /\ nic' = Collect(callHandlePacket(r.n), handles, pendingRemove, loc')
          ELSE /\ deliverGoto(t, "deliverForward", NilRef)
               /\ nic' = Collect(r.n, handles, pendingRemove, loc')
       /\ UNCHANGED <<handles, pendingRemove>>

\* ref.decRef() after HandlePacket (lines 1016 and 1113): the decrement; at
\* zero the removal is left to removeEndpoint. On the forwarding path
\* r.Release() (line 1130) follows.
handlePacketDecRef(t) ==
    LET ref == loc[t].dep
    IN /\ Running
       /\ pc[t] = "handlePacket"
       /\ nic' = LET n1 == [nic EXCEPT !.cells[ref].refs = @ - 1]
                 IN IF loc[t].route THEN Release(n1) ELSE n1
       /\ pendingRemove' = IF nic'.cells[ref].refs = 0 THEN pendingRemove \cup {ref}
                           ELSE pendingRemove
       /\ deliverReturn(t)
       /\ UNCHANGED handles

\* writeForwardingPacket: ok is the result of the link endpoint's WritePacket.
writeForwardingPacket(n, pkt, ok) ==
    LET n1 == [n EXCEPT !.calls.WritePacket = @ + 1]
    IN IF ok THEN [n1 EXCEPT !.stats.Tx.Packets = @ + 1, !.stats.Tx.Bytes = @ + pkt.size]
       ELSE [n1 EXCEPT !.stackStats.OutgoingPacketErrors = @ + 1]

RouteResults == {"route", "ErrNoRoute"}
ResolveResults == {"resolved", "ErrWouldBlock", "ErrNoLinkAddress"}

\* The end of DeliverNetworkPacket without the check of len(packetEPs).
deliverForwardLocked_AlwaysCounts(n, pkt, packetEPs, forwarding, route, resolve, writeOk) ==
    LET ref == Lookup(n, pkt.dst)
        ok == ref # NilRef /\ isValidForOutgoingRLocked(n, ref) /\ tryIncRefOk(n, ref)
    IN IF ~forwarding THEN [n |-> countInvalidDestination(n), ref |-> NilRef]
       ELSE IF route # "route" THEN [n |-> countInvalidDestination(n), ref |-> NilRef]
       ELSE IF ok THEN [n |-> callHandlePacket(tryIncRef(FindRoute(n), ref)), ref |-> ref]
       ELSE IF resolve = "ErrWouldBlock"
       THEN [n |-> [FindRoute(n) EXCEPT !.calls.enqueue = @ + 1], ref |-> NilRef]
       ELSE IF resolve # "resolved"
       THEN [n |-> Release(countInvalidDestination(FindRoute(n))), ref |-> NilRef]
       ELSE [n |-> Release(writeForwardingPacket(FindRoute(n), pkt, writeOk)),
             ref |-> NilRef]

\* The end of DeliverNetworkPacket with a Resolve error that is not counted.
deliverForwardLocked_SilentResolveError(n, pkt, packetEPs, forwarding, route, resolve, writeOk) ==
    LET ref == Lookup(n, pkt.dst)
        ok == ref # NilRef /\ isValidForOutgoingRLocked(n, ref) /\ tryIncRefOk(n, ref)
    IN IF ~forwarding
       THEN [n |-> IF Len(packetEPs) = 0 THEN countInvalidDestination(n) ELSE n,
             ref |-> NilRef]
       ELSE IF route # "route" THEN [n |-> countInvalidDestination(n), ref |-> NilRef]
       ELSE IF ok THEN [n |-> callHandlePacket(tryIncRef(FindRoute(n), ref)), ref |-> ref]
       ELSE IF resolve = "ErrWouldBlock"
       THEN [n |-> [FindRoute(n) EXCEPT !.calls.enqueue = @ + 1], ref |-> NilRef]
       ELSE IF resolve # "resolved" THEN [n |-> Release(FindRoute(n)), ref |-> NilRef]
       ELSE [n |-> Release(writeForwardingPacket(FindRoute(n), pkt, writeOk)),
             ref |-> NilRef]

\* The end of DeliverNetworkPacket with a return, and no r.Release(), after a
\* Resolve error that is not ErrWouldBlock.
deliverForwardLocked_KeepsRouteOnError(n, pkt, packetEPs, forwarding, route, resolve, writeOk) ==
    LET ref == Lookup(n, pkt.dst)
        ok == ref # NilRef /\ isValidForOutgoingRLocked(n, ref) /\ tryIncRefOk(n, ref)
    IN IF ~forwarding
       THEN [n |-> IF Len(packetEPs) = 0 THEN countInvalidDestination(n) ELSE n,
             ref |-> NilRef]
       ELSE IF route # "route" THEN [n |-> countInvalidDestination(n), ref |-> NilRef]
       ELSE IF ok THEN [n |-> callHandlePacket(tryIncRef(FindRoute(n), ref)), ref |-> ref]
       ELSE IF resolve = "ErrWouldBlock"
       THEN [n |-> [FindRoute(n) EXCEPT !.calls.enqueue = @ + 1], ref |-> NilRef]
       ELSE IF resolve # "resolved"
       THEN [n |-> countInvalidDestination(FindRoute(n)), ref |-> NilRef]
       ELSE [n |-> Release(writeForwardingPacket(FindRoute(n), pkt, writeOk)),
             ref |-> NilRef]

\* Lines 1094-1137: no endpoint of this NIC takes the packet. forwarding,
\* route, resolve and writeOk are what the stack, FindRoute, Resolve and
\* WritePacket answer; "ref" is the endpoint that got the packet, "returned"
\* is FALSE when its decRef is still to come.
deliverForwardLocked(n, pkt, packetEPs, forwarding, route, resolve, writeOk) ==
    LET ref == Lookup(n, pkt.dst)
        ok == ref # NilRef /\ isValidForOutgoingRLocked(n, ref) /\ tryIncRefOk(n, ref)
    IN IF ~forwarding
       THEN [n |-> IF Len(packetEPs) = 0 THEN countInvalidDestination(n) ELSE n,
             ref |-> NilRef]
       ELSE IF route # "route" THEN [n |-> countInvalidDestination(n), ref |-> NilRef]
       ELSE IF ok THEN [n |-> callHandlePacket(tryIncRef(FindRoute(n), ref)), ref |-> ref]
       ELSE IF resolve = "ErrWouldBlock"
       THEN [n |-> [FindRoute(n) EXCEPT !.calls.enqueue = @ + 1], ref |-> NilRef]
       ELSE IF resolve # "resolved"
       THEN [n |-> Release(countInvalidDestination(FindRoute(n))), ref |-> NilRef]
       ELSE [n |-> Release(writeForwardingPacket(FindRoute(n), pkt, writeOk)),
             ref |-> NilRef]

deliverForward(t, forwarding, route, resolve, writeOk) ==
    LET f == deliverForwardLocked(nic, loc[t].pkt, loc[t].packetEPs, forwarding,
                                  route, resolve, writeOk)
    IN /\ Running
       /\ pc[t] = "deliverForward"
       /\ nic' = f.n
       /\ IF f.ref # NilRef
          THEN /\ pc' = [pc EXCEPT ![t] = "handlePacket"]
               /\ loc' = [loc EXCEPT ![t].dep = f.ref, ![t].route = TRUE]
          ELSE deliverReturn(t)
       /\ UNCHANGED <<handles, pendingRemove>>

\* RLock returns at once: no writer waits in Lock. (A thread in removeEndpoint
\* waits in Lock as well.)
RLockReady(n, pend) == n.mu.pending = {} /\ pend = {}

\* Lock returns at once: no read lease is held.
LockReady(n) == n.mu.readers = 0

\* primaryIPv6Endpoint, lines 346-353: the read lease is taken and kept.
primaryIPv6EndpointRLock(t, remoteAddr) ==
    LET primaryAddrs == nic.primary[IPv6ProtocolNumber]
    IN /\ Idle(t)
       /\ RLockReady(nic, pendingRemove)
       /\ IF Len(primaryAddrs) = 0 THEN UNCHANGED <<nic, pc, loc>>
          ELSE /\ nic' = [nic EXCEPT !.mu.readers = @ + 1]
               /\ pc' = [pc EXCEPT ![t] = "primaryIPv6Endpoint"]
               /\ loc' = [loc EXCEPT ![t] = [NoLoc EXCEPT !.addr = remoteAddr,
                                                         !.view = primaryAddrs,
                                                         !.i = 1]]
       /\ UNCHANGED <<handles, pendingRemove>>

\* primaryIPv6Endpoint, lines 358-362: isValidForOutgoing takes the read
\* lease again (lines 1411-1412) for the next endpoint of the list.
isValidForOutgoing(t) ==
    /\ Running
    /\ pc[t] = "primaryIPv6Endpoint"
    /\ loc[t].i <= Len(loc[t].view)
    /\ RLockReady(nic, pendingRemove)
    /\ loc' = [loc EXCEPT ![t].i = @ + 1]
    /\ UNCHANGED <<nic, handles, pendingRemove, pc>>

\* primaryIPv6Endpoint, lines 379-427: the candidates are sorted, the first
\* whose tryIncRef succeeds is returned and the read lease is released.
primaryIPv6EndpointReturn(t) ==
    LET r == primaryIPv6Endpoint(nic, loc[t].addr)
    IN /\ Running
       /\ pc[t] = "primaryIPv6Endpoint"
       /\ loc[t].i > Len(loc[t].view)
       /\ Returned(r.ref)
       /\ nic' = [r.n EXCEPT !.mu.readers = @ - 1]
       /\ pc' = [pc EXCEPT ![t] = "idle"]
       /\ loc' = [loc EXCEPT ![t] = NoLoc]
       /\ UNCHANGED pendingRemove

\* n.mu.Lock() is called: the thread waits for the read leases to be released
\* and no RLock returns until it has had the write lease.
Lock(t) ==
    /\ Idle(t)
    /\ nic' = [nic EXCEPT !.mu.pending = @ \cup {t}]
    /\ pc' = [pc EXCEPT ![t] = "Lock"]
    /\ UNCHANGED <<handles, pendingRemove, loc>>

\* What the sections under n.mu.Lock() of AddAddress, RemoveAddress,
\* setSpoofing and enable make of n.
WriteSections(n) ==
    {addAddressLocked(n, a, ProtoOf(a), peb, permanent, static, FALSE) :
        a \in {GlobalAddr}, peb \in {CanBePrimaryEndpoint, FirstPrimaryEndpoint}}
    \cup {removePermanentAddressLocked(n, a) : a \in {GlobalAddr}}
    \cup {[n |-> [n EXCEPT !.spoofing = ~@], err |-> ErrNone]}
    \cup {enableLocked(n, opts) : opts \in StackOptions}

\* Lock returns, the section runs and n.mu.Unlock() releases the write lease.
Unlock(t) ==
    /\ Running
    /\ pc[t] = "Lock"
    /\ LockReady(nic)
    /\ \E w \in WriteSections(nic) :
          /\ w.err # OutOfBounds
          /\ nic' = Collect([w.n EXCEPT !.mu.pending = @ \ {t}], handles,
                             pendingRemove, loc)
    /\ pc' = [pc EXCEPT ![t] = "idle"]
    /\ UNCHANGED <<handles, pendingRemove, loc>>

\* removeEndpoint (lines 884-888) once Lock has returned.
removeEndpointLock(r) ==
    /\ Running
    /\ r \in pendingRemove
    /\ LockReady(nic)
    /\ pendingRemove' = pendingRemove \ {r}
    /\ nic' = Collect(removeEndpointLocked(nic, r), handles, pendingRemove', loc)
    /\ UNCHANGED <<handles, pc, loc>>

AddAddressRange(subnet) ==
    /\ Running
    /\ Len(nic.addressRanges) < MaxRanges
    /\ Locked([nic EXCEPT !.addressRanges = Append(@, subnet)], ErrNone)

RemoveAddressRange(subnet) ==
    /\ Running
    /\ \E i \in 1..Len(nic.addressRanges) : nic.addressRanges[i] = subnet
    /\ Locked([nic EXCEPT !.addressRanges = SelectSeq(@, LAMBDA sub : sub # subnet)],
              ErrNone)

\* handleNDPRA for an advertisement with the autonomous prefix 2001:db8::/64;
\* deprecated says that the prefix's preferred lifetime is zero.
handleNDPRA(deprecated) ==
    LET r == doSLAAC(nic, GlobalAddr, deprecated)
    IN /\ Running
       /\ ~hasPermanentAddrLocked(nic, GlobalAddr)
       /\ Locked(r.n, r.err)

\* ------------------------------------------------------------------ inputs
UserAddrs == {GlobalAddr}
DadAddrs == {GlobalAddr, LinkLocalAddr}
GroupAddrs == {IPv6AllNodesMulticastAddress}
RemoteAddrs == {NilAddr, GlobalAddr, LinkLocalAddr}
Subnets == {GlobalSubnet}

Next ==
    \/ \E a \in UserAddrs, peb \in PrimaryEndpointBehavior : AddAddress(a, peb)
    \/ \E a \in UserAddrs : RemoveAddress(a)
    \/ \E b \in BOOLEAN : setPromiscuousMode(b)
    \/ \E b \in BOOLEAN : setSpoofing(b)
    \/ \E sn \in Subnets : AddAddressRange(sn)
    \/ \E sn \in Subnets : RemoveAddressRange(sn)
    \/ \E b \in BOOLEAN : handleNDPRA(b)
    \/ \E a \in DadAddrs : dupTentativeAddrDetected(a)
    \/ \E a \in DadAddrs : dadSuccess(a)
    \/ \E opts \in StackOptions : enable(opts)
    \/ \E t \in Threads, a \in UserAddrs, tempRef \in getRefBehaviour :
          getRefOrCreateTemp(t, a, CanBePrimaryEndpoint, tempRef)
    \/ \E t \in Threads : getRefOrCreateTempLocked(t)
    \/ \E a \in UserAddrs : forwardLookup(a)
    \/ \E t \in Threads, remote \in RemoteAddrs :
          primaryEndpoint(t, IPv6ProtocolNumber, remote)
    \/ \E t \in Threads : primaryEndpointResume(t)
    \/ \E r \in CellIds : cloneRef(r)
    \/ \E r \in CellIds : decRef(r)
    \/ \E r \in CellIds : removeEndpoint(r)

Spec == Init /\ [][Next]_vars

\* The multicast groups and the packets delivered to them: joinGroup,
\* leaveGroup and RemoveAddress of a group address next to the receive path's
\* getRefOrCreateTemp for a group address.
NextGroups ==
    \/ \E a \in GroupAddrs : joinGroup(a)
    \/ \E a \in GroupAddrs : leaveGroup(a)
    \/ \E a \in GroupAddrs : RemoveAddress(a)
    \/ \E b \in BOOLEAN : setPromiscuousMode(b)
    \/ \E opts \in StackOptions : enable(opts)
    \/ \E t \in Threads, a \in GroupAddrs :
          getRefOrCreateTemp(t, a, CanBePrimaryEndpoint, promiscuous)
    \/ \E t \in Threads : getRefOrCreateTempLocked(t)
    \/ \E r \in CellIds : cloneRef(r)
    \/ \E r \in CellIds : decRef(r)
    \/ \E r \in CellIds : removeEndpoint(r)

SpecGroups == Init /\ [][NextGroups]_vars

\* The receive path: the packets the link endpoint delivers, next to the
\* operations that change what the path reads.
Packets ==
    {[protocol |-> IPv6ProtocolNumber, size |-> 2, src |-> GlobalAddr,
      dst |-> GlobalAddr],
     [protocol |-> IPv6ProtocolNumber, size |-> 1, src |-> NilAddr, dst |-> NilAddr],
     [protocol |-> ARPProtocolNumber, size |-> 2, src |-> NilAddr, dst |-> NilAddr]}

PacketEndpoints == {"ep"}

NextDeliver ==
    \/ \E t \in Threads, pkt \in Packets : DeliverNetworkPacket(t, pkt)
    \/ \E t \in Threads, handleLocal, loopback \in BOOLEAN :
          deliverSource(t, handleLocal, loopback)
    \/ \E t \in Threads : deliverSourceLocked(t)
    \/ \E t \in Threads : deliverLocal(t)
    \/ \E t \in Threads : deliverLocalLocked(t)
    \/ \E t \in Threads : handlePacketDecRef(t)
    \/ \E t \in Threads, forwarding, writeOk \in BOOLEAN,
          route \in RouteResults, resolve \in ResolveResults :
          deliverForward(t, forwarding, route, resolve, writeOk)
    \/ \E netProto \in {IPv6ProtocolNumber, EthernetProtocolAll},
          ep \in PacketEndpoints : registerPacketEndpoint(netProto, ep)
    \/ \E netProto \in {IPv6ProtocolNumber, EthernetProtocolAll},
          ep \in PacketEndpoints : unregisterPacketEndpoint(netProto, ep)
    \/ \E a \in UserAddrs : AddAddress(a, CanBePrimaryEndpoint)
    \/ \E a \in UserAddrs : RemoveAddress(a)
    \/ \E b \in BOOLEAN : setPromiscuousMode(b)
    \/ \E opts \in {o \in StackOptions : ~o.autoGenIPv6LinkLocal} : enable(opts)
    \/ \E a \in UserAddrs : dadSuccess(a)
    \/ \E r \in CellIds : removeEndpoint(r)

SpecDeliver == Init /\ [][NextDeliver]_vars

\* Add and Remove of an address next to joinGroup and leaveGroup of its
\* solicited-node group, with references that keep an expired entry.
RemoveAddrs == {GlobalAddr, SolicitedNodeAddr(GlobalAddr)}

NextRemove ==
    \/ \E peb \in PrimaryEndpointBehavior : AddAddress(GlobalAddr, peb)
    \/ \E a \in RemoveAddrs : RemoveAddress(a)
    \/ joinGroup(SolicitedNodeAddr(GlobalAddr))
    \/ leaveGroup(SolicitedNodeAddr(GlobalAddr))
    \/ \E opts \in {o \in StackOptions : ~o.autoGenIPv6LinkLocal} : enable(opts)
    \/ dadSuccess(GlobalAddr)
    \/ forwardLookup(GlobalAddr)
    \/ \E r \in CellIds : decRef(r)
    \/ \E r \in CellIds : removeEndpoint(r)

SpecRemove == Init /\ [][NextRemove]_vars

\* The packet endpoints of a packet: the loop over them next to the
\* operations that register them, on a stack that neither handles local
\* packets nor forwards.
FanOutEndpoints == {"ep", "ep2"}

NextFanOut ==
    \/ \E t \in Threads, pkt \in Packets : deliverRLocked(t, pkt)
    \/ \E t \in Threads : deliverPacketEP(t)
    \/ \E t \in Threads : deliverParse(t)
    \/ \E t \in Threads : deliverSource(t, FALSE, FALSE)
    \/ \E t \in Threads : deliverLocal(t)
    \/ \E t \in Threads, route \in RouteResults, resolve \in ResolveResults :
          deliverForward(t, FALSE, route, resolve, TRUE)
    \/ \E netProto \in {IPv6ProtocolNumber, EthernetProtocolAll},
          ep \in FanOutEndpoints : registerPacketEndpoint(netProto, ep)
    \/ \E netProto \in {IPv6ProtocolNumber, EthernetProtocolAll},
          ep \in FanOutEndpoints : unregisterPacketEndpoint(netProto, ep)
    \/ \E opts \in {o \in StackOptions : ~o.autoGenIPv6LinkLocal} : enable(opts)

SpecFanOut == Init /\ [][NextFanOut]_vars

\* Source selection for IPv6 over primary lists of addresses of three scopes,
\* one of them made by SLAAC and deprecated or not.
SelectAddrs == {LinkLocalAddr, UniqueLocalAddr2, GlobalAddr, GlobalAddr3}
\* A remote address that is no address of the NIC.
GlobalRemote == [len |-> 16, pfx |-> "2001:db8", low |-> 9]
SelectRemotes == {LinkLocalAddr, UniqueLocalAddr2, GlobalAddr2, GlobalRemote}

NextSelect ==
    \/ \E a \in SelectAddrs \ {GlobalAddr},
          peb \in {CanBePrimaryEndpoint, FirstPrimaryEndpoint} : AddAddress(a, peb)
    \/ \E a \in {GlobalAddr, GlobalAddr3} : RemoveAddress(a)
    \/ \E deprecated \in BOOLEAN : handleNDPRA(deprecated)
    \/ \E t \in Threads, remote \in SelectRemotes :
          primaryEndpointAlone(t, IPv6ProtocolNumber, remote)
    \/ \E r \in CellIds : decRef(r)
    \/ \E r \in CellIds : removeEndpoint(r)

SpecSelect == Init /\ [][NextSelect]_vars

\* Source selection for IPv6 over primary lists of up to seven addresses in
\* every order.
SortAddrs ==
    {LinkLocalAddr, LinkLocalAddr3, UniqueLocalAddr2, GlobalAddr, GlobalAddr2,
     GlobalAddr3, GlobalAddr4}

NextSort ==
    \/ \E a \in SortAddrs : AddAddress(a, CanBePrimaryEndpoint)
    \/ \E t \in Threads, remote \in SelectRemotes :
          primaryEndpointAlone(t, IPv6ProtocolNumber, remote)
    \/ \E r \in CellIds : decRef(r)

SpecSort == Init /\ [][NextSort]_vars

\* The lease: source selection for IPv6, which keeps the read lease over its
\* loop, next to the operations that take the write lease.
NextLease ==
    \/ \E t \in Threads, remote \in RemoteAddrs \ {NilAddr} :
          primaryIPv6EndpointRLock(t, remote)
    \/ \E t \in Threads : isValidForOutgoing(t)
    \/ \E t \in Threads : primaryIPv6EndpointReturn(t)
    \/ \E t \in Threads : Lock(t)
    \/ \E t \in Threads : Unlock(t)
    \/ \E r \in CellIds : decRef(r)
    \/ \E r \in CellIds : removeEndpointLock(r)

SpecLease == Init /\ [][NextLease]_vars

\* SpecLease under fair scheduling: a thread that holds the lease or has been
\* granted it goes on, and a removal whose Lock can return takes place.
\* sync.RWMutex lets no reader in while a writer waits, so the writer is not
\* starved by readers that keep coming.
\* Unlock is fair as well; its condition is spelt out, Unlock being the one
\* step that takes a thread out of Lock and the section of setSpoofing being
\* one that every state allows.
FairLease ==
    /\ SpecLease
    /\ WF_vars(\E t \in Threads : isValidForOutgoing(t))
    /\ WF_vars(\E t \in Threads : primaryIPv6EndpointReturn(t))
    /\ \/ []<>~(Running /\ LockReady(nic) /\ \E t \in Threads : pc[t] = "Lock")
       \/ []<><<\E t \in Threads : pc[t] = "Lock" /\ pc'[t] = "idle">>_vars
    /\ WF_vars(\E r \in CellIds : removeEndpointLock(r))

\* enable called by several threads, next to the operations that add and
\* remove the addresses enable works on.
EnableAddrs == {GlobalAddr, IPv4Broadcast, IPv6AllNodesMulticastAddress}

NextEnable ==
    \/ \E t \in Threads : enableRLocked(t)
    \/ \E t \in Threads, opts \in StackOptions : enableWLocked(t, opts)
    \/ \E a \in EnableAddrs, peb \in PrimaryEndpointBehavior : AddAddress(a, peb)
    \/ \E a \in EnableAddrs : RemoveAddress(a)
    \/ \E a \in DadAddrs : dupTentativeAddrDetected(a)
    \/ \E a \in DadAddrs : dadSuccess(a)
    \/ \E a \in UserAddrs : forwardLookup(a)
    \/ \E r \in CellIds : decRef(r)
    \/ \E r \in CellIds : removeEndpoint(r)

SpecEnable == Init /\ [][NextEnable]_vars

\* ------------------------------------------------------------------ claims
\* The cells the table maps.
Mapped == {r \in CellIds : nic.endpoints[r.a] = r.g}

\* C1 as stated: in every reachable state no cell whose refcount is 0 is
\* mapped in the address table.
C1_NoDeadCellMapped == \A r \in Mapped : nic.cells[r].refs # 0

\* C1 (amended): a cell whose refcount is 0 is mapped in the address table only
\* between the decrement of decRef that drove it to 0 and the removeEndpoint
\* that decRef goes on to run.
C1_DeadCellMappedOnlyUntilRemoved ==
    \A r \in Mapped :
        nic.cells[r].refs = 0 => r \in pendingRemove

\* C1: a decRef has driven a mapped cell to 0 and its removeEndpoint has not run.
C1_Witness == \E r \in Mapped : nic.cells[r].refs = 0 /\ r \in pendingRemove
\* C2: a refcount that has reached 0 stays 0, and a cell to which a caller
\* holds a handle (from getRefOrCreateTemp, primaryEndpoint, the forwarding
\* lookup or a promotion) is mapped in the address table and not closed, from
\* the step that returns the handle on.
C2_HandlesKeepCellsInTable ==
    [][/\ \A r \in CellIds :
             nic.cells[r].used /\ nic.cells[r].refs = 0 => nic'.cells[r].refs = 0
       /\ \A r \in CellIds :
             handles'[r] > 0 =>
                 /\ nic'.endpoints[r.a] = r.g
                 /\ nic'.cells[r].closed = 0
                 /\ nic'.cells[r].refs >= handles'[r]]_vars

\* C2: a handle is held on a cell that a Remove has expired, next to a cell
\* whose refcount has reached 0.
C2_Witness ==
    /\ \E r \in Mapped : handles[r] > 0 /\ getKind(nic, r) = permanentExpired
    /\ \E r \in CellIds : nic.cells[r].used /\ nic.cells[r].refs = 0

\* The kind changes of a cell that exists before and after a step.
KindChanges ==
    {<<nic.cells[r].kind, nic'.cells[r].kind>> :
        r \in {c \in CellIds : /\ nic.cells[c].used
                               /\ nic'.cells[c].used
                               /\ nic.cells[c].kind # nic'.cells[c].kind}}

InstalledV6Unicast == {a \in Addrs : IsV6UnicastAddress(a) /\ nic.endpoints[a] # 0}

\* The group g is joined: its join count is positive and an entry backs it.
Joined(g) == nic.mcastJoins[g] > 0 /\ nic.endpoints[g] # 0

\* C4: in every reachable state a solicited-node group is joined if and only
\* if the table has an IPv6 unicast entry whose solicited-node group it is.
C4_SolicitedNodeGroupsMatchEntries ==
    \A a \in {b \in Addrs : IsV6UnicastAddress(b)} :
        Joined(SolicitedNodeAddr(a))
            <=> \E b \in InstalledV6Unicast : SolicitedNodeAddr(b) = SolicitedNodeAddr(a)

\* No operation is mid-flight.
Quiescent == pendingRemove = {} /\ \A t \in Threads : pc[t] = "idle"

\* The reference a cell of this kind holds on itself.
Bias(kind) == IF kind \in {permanent, permanentTentative} THEN 1 ELSE 0

C6_PermanentOnlyAfterDAD ==
    [][\A r \in CellIds :
          /\ IsV6UnicastAddress(r.a)
          /\ nic'.cells[r].used
          /\ nic'.cells[r].kind = permanent
          /\ ~(nic.cells[r].used /\ nic.cells[r].kind = permanent)
          => dadSuccess(r.a)]_vars
\* The cells on which the step hands a new handle to a caller.
Handed == {r \in CellIds : handles'[r] > handles[r]}

\* C7: getRefOrCreateTemp never returns an entry whose kind is
\* permanentTentative, whatever the mode, the flags and the address ranges.
C7_GetRefNeverTentative ==
    [][\A t \in Threads, a \in UserAddrs, tempRef \in getRefBehaviour :
          \/ getRefOrCreateTemp(t, a, CanBePrimaryEndpoint, tempRef)
          \/ getRefOrCreateTempLocked(t)
          => \A r \in Handed : nic'.cells[r].kind # permanentTentative]_vars

\* What primaryEndpoint returns to a caller in this state: the result of
\* primaryIPv6Endpoint for a remote address, of a generic walk that starts and
\* of a generic walk in progress.
SourcesOffered ==
    {primaryIPv6Endpoint(nic, remote).ref : remote \in RemoteAddrs \ {NilAddr}}
    \cup {walkPrimary(nic, nic.primary[p], 1, NilRef).ref : p \in networkProtocols}
    \cup {walkPrimary(nic, loc[t].view, loc[t].i, loc[t].dep).ref :
             t \in {u \in Threads : pc[u] = "primaryEndpoint"}}

\* C8: primaryEndpoint, by its generic walk or by primaryIPv6Endpoint, never
\* returns an entry whose kind is permanentTentative.
C8_SourceNeverTentative ==
    \A r \in SourcesOffered \ {NilRef} : getKind(nic, r) # permanentTentative

RECURSIVE joinTimes(_, _, _)
joinTimes(n, g, k) ==
    IF k = 0 THEN [n |-> n, ok |-> TRUE]
    ELSE LET j == joinGroupLocked(n, ProtoOf(g), g)
         IN IF j.err # ErrNone THEN [n |-> j.n, ok |-> FALSE]
            ELSE joinTimes(j.n, g, k - 1)

\* k calls of leaveGroup for g, one after the other; ok says that all succeeded.
RECURSIVE leaveTimes(_, _, _)
leaveTimes(n, g, k) ==
    IF k = 0 THEN [n |-> n, ok |-> TRUE]
    ELSE LET l == leaveGroupLocked(n, g)
         IN IF l.err # ErrNone THEN [n |-> l.n, ok |-> FALSE]
            ELSE leaveTimes(l.n, g, k - 1)

\* C10 as stated: from a state where the join count of g is 0, k joinGroup(g)
\* that succeed and then k leaveGroup(g) all succeed, leave the join count at 0
\* and leave no entry for g in the address table.
C10_JoinsThenLeavesRemoveEntry ==
    \A g \in GroupAddrs, k \in 1..MaxJoins :
        nic.mcastJoins[g] = 0 /\ joinTimes(nic, g, k).ok =>
            LET l == leaveTimes(joinTimes(nic, g, k).n, g, k)
            IN l.ok /\ l.n.mcastJoins[g] = 0 /\ l.n.endpoints[g] = 0

\* C10 (amended): from a state where the join count of g is 0, k joinGroup(g)
\* that succeed and then k leaveGroup(g) all succeed and leave the join count at
\* 0; they leave no entry for g in the address table, or a permanentExpired
\* entry to which callers hold handles.
C10_JoinsThenLeavesExpireEntry ==
    \A g \in GroupAddrs, k \in 1..MaxJoins :
        nic.mcastJoins[g] = 0 /\ joinTimes(nic, g, k).ok =>
            LET l == leaveTimes(joinTimes(nic, g, k).n, g, k)
                r == Lookup(l.n, g)
            IN /\ l.ok
               /\ l.n.mcastJoins[g] = 0
               /\ \/ r = NilRef
                  \/ /\ getKind(l.n, r) = permanentExpired
                     /\ l.n.cells[r].refs > 0
                     /\ handles[r] > 0

\* C10: the join count of g is 0, a caller holds a handle on an entry for g and
\* a joinGroup(g) succeeds.
C10_Witness ==
    \E g \in GroupAddrs :
        /\ nic.mcastJoins[g] = 0
        /\ nic.endpoints[g] # 0
        /\ handles[Lookup(nic, g)] > 0
        /\ joinTimes(nic, g, MaxJoins).ok

\* C11: in every reachable state every address whose join count is greater
\* than 0 has an entry in the address table whose kind is permanent, and no
\* join count is negative.
C11_JoinedGroupsAreBacked ==
    \A a \in Addrs :
        /\ nic.mcastJoins[a] >= 0
        /\ nic.mcastJoins[a] > 0 =>
              /\ Lookup(nic, a) # NilRef
              /\ getKind(nic, Lookup(nic, a)) = permanent

\* The addresses of a primary list, in its order.
AddrsOf(list) == [i \in 1..Len(list) |-> list[i].a]

\* The entries Add(A, permanent, ...) promotes: temporary or permanentExpired,
\* with a refcount that is not 0.
Promotable ==
    {r \in Mapped : /\ r.a \in UserAddrs
                    /\ getKind(nic, r) \in {temporary, permanentExpired}
                    /\ nic.cells[r].refs # 0}

\* Add(A, permanent, peb) on the current state.
PromoteNow(r, peb, configType, deprecated) ==
    addAddressLocked(nic, r.a, nic.cells[r].protocol, peb, permanent, configType,
                     deprecated)

\* The entry of r removed, as removePermanentAddressLocked removes an entry
\* that nothing else refers to (the entry is deleted and the solicited-node
\* group of an IPv6 unicast address is left), and A added afresh.
FreshAdd(r, peb, configType, deprecated) ==
    LET n1 == removeEndpointLocked(nic, r)
        n2 == IF nic.cells[r].protocol = IPv6ProtocolNumber /\ IsV6UnicastAddress(r.a)
              THEN leaveGroupLocked(n1, SolicitedNodeAddr(r.a)).n
              ELSE n1
    IN addNewLocked(n2, r.a, nic.cells[r].protocol, peb, permanent, configType,
                    deprecated)

\* Add(A, permanent, peb) returns the same cell, permanent, with the given
\* deprecated and configType.
PromotesInPlace(r, peb, configType, deprecated) ==
    LET p == PromoteNow(r, peb, configType, deprecated)
    IN /\ p.err = ErrNone
       /\ p.ref = r
       /\ p.n.endpoints[r.a] = r.g
       /\ getKind(p.n, r) = permanent
       /\ p.n.cells[r].deprecated = deprecated
       /\ p.n.cells[r].configType = configType

\* The primary list without the entry r, as addresses.
OthersOf(r) ==
    LET list == nic.primary[nic.cells[r].protocol]
        i == IndexOf(list, r)
    IN AddrsOf(IF i = 0 THEN list ELSE CutAt(list, i))

ListedAs(proto, addr) ==
    {r \in CellIds : /\ r.a = addr
                     /\ \E i \in 1..Len(nic.primary[proto]) : nic.primary[proto][i] = r}

EnableStep == \E t \in Threads, opts \in StackOptions : enableWLocked(t, opts)

\* The permanent IPv6 unicast addresses of the table.
PermanentV6Unicast ==
    {a \in Addrs : hasPermanentAddrLocked(nic, a) /\ IsV6UnicastAddress(a)}

C15_DisabledDeliveryCountsOnly ==
    [][\A t \in Threads, pkt \in Packets :
          DeliverNetworkPacket(t, pkt) /\ ~nic.enabled =>
              /\ nic' = [nic EXCEPT !.stats.DisabledRx.Packets = @ + 1,
                                    !.stats.DisabledRx.Bytes = @ + pkt.size]
              /\ UNCHANGED <<handles, pendingRemove, pc, loc>>]_vars

\* C15: a NIC that is not enabled, with a packet endpoint registered and an
\* address in its table, has counted a packet as DisabledRx.
C15_Witness ==
    /\ ~nic.enabled
    /\ nic.stats.DisabledRx.Packets > 0
    /\ nic.stats.DisabledRx.Bytes > nic.stats.DisabledRx.Packets
    /\ fanOut(nic, IPv6ProtocolNumber) # <<>>
    /\ Mapped # {}

InvalidDestinations(n) == n.stackStats.InvalidDestinationAddressesReceived

Accounted(n) ==
    n.calls.HandlePacket + n.calls.packetEP + n.calls.enqueue + n.calls.WritePacket
    + n.stats.DisabledRx.Packets + n.stackStats.UnknownProtocolRcvdPackets
    + n.stackStats.MalformedRcvdPackets
    + n.stackStats.InvalidSourceAddressesReceived
    + n.stackStats.InvalidDestinationAddressesReceived

\* The step ends a call of DeliverNetworkPacket by thread t.
DeliverEnds(t) ==
    \/ pc[t] \in {"deliverSource", "deliverSourceLocked", "deliverLocal",
                   "deliverLocalLocked", "deliverForward", "handlePacket"}
       /\ pc'[t] = "idle"
    \/ pc' = pc /\ \E pkt \in Packets : DeliverNetworkPacket(t, pkt)

\* C17: every call of DeliverNetworkPacket ends with an outcome accounted: the
\* step that ends it hands the packet on or counts a drop, or the call has
\* handed the packet to a network endpoint or to a packet endpoint before. (A
\* call holds the reference of "handlePacket" and a fan-out list that is not
\* empty only after the calls of HandlePacket they stand for.)
C17_EveryPacketAccounted ==
    [][\A t \in Threads :
          /\ DeliverEnds(t) =>
                \/ Accounted(nic') > Accounted(nic)
                \/ pc[t] = "handlePacket"
                \/ loc[t].packetEPs # <<>>
          /\ pc[t] # "handlePacket" /\ pc'[t] = "handlePacket" =>
                nic'.calls.HandlePacket = nic.calls.HandlePacket + 1
          /\ pc[t] = "idle" /\ pc'[t] = "deliverSource" =>
                nic'.calls.packetEP = nic.calls.packetEP + Len(loc'[t].packetEPs)]_vars

\* C17: every packet has been dealt with; one went to the forwarder's queue
\* and one was counted as having an invalid destination.
C17_Witness ==
    /\ \A t \in Threads : pc[t] = "idle"
    /\ nic.stats.Rx.Packets = MaxPackets
    /\ nic.calls.enqueue = 1
    /\ InvalidDestinations(nic) = 1

\* The step is the check of the packet's source address by thread t.
SourceCheck(t) ==
    /\ pc[t] \in {"deliverSource", "deliverSourceLocked"}
    /\ pc'[t] \notin {"deliverSource", "deliverSourceLocked"}

\* C18: the check of the source address in DeliverNetworkPacket is a lookup
\* and nothing more: found or not, promiscuous or not, it leaves the refcount
\* of every entry of the address table as it is and makes no entry.
C18_SourceCheckIsPureLookup ==
    [][\A t \in Threads :
          SourceCheck(t) =>
              /\ \A a \in Addrs : nic.endpoints[a] = 0 => nic'.endpoints[a] = 0
              /\ \A r \in Mapped : nic'.cells[r].refs = nic.cells[r].refs]_vars

\* Thread t waits for the lease or holds it.
InLease(t) == pc[t] \in {"primaryIPv6Endpoint", "Lock"}

\* Thread t can go on: the lease it asks for next is granted, or it has all
\* it needs to finish.
CanGoOn(t) ==
    \/ pc[t] = "Lock" /\ LockReady(nic)
    \/ /\ pc[t] = "primaryIPv6Endpoint"
       /\ loc[t].i <= Len(loc[t].view) => RLockReady(nic, pendingRemove)

\* C19: no operation blocks for ever on the lease of the NIC. Whenever a thread
\* waits for the lease or holds it, some thread that waits for it or holds it
\* can go on, also when a thread asks for the read lease while it holds it
\* and a writer waits.
C19_NoLeaseDeadlock ==
    /\ (\E t \in Threads : InLease(t)) => \E u \in Threads : CanGoOn(u)
    /\ pendingRemove # {} =>
          \/ LockReady(nic)
          \/ \E u \in Threads : CanGoOn(u)

\* The loop of primaryEndpoint run to its return from position i of view.
RECURSIVE runPrimary(_, _, _, _)
runPrimary(n, view, i, dep) ==
    LET w == walkPrimary(n, view, i, dep)
    IN IF w.done THEN w ELSE runPrimary(w.n, view, w.i, w.dep)

\* The positions of list whose entry is valid for outgoing, has a refcount
\* that is not zero and has the deprecated flag as given.
Usable(n, list, deprecated) ==
    {i \in 1..Len(list) :
        /\ n.cells[list[i]].kind # permanentExpired \/ n.spoofing
        /\ n.cells[list[i]].refs # 0
        /\ n.cells[list[i]].deprecated = deprecated}

\* The first entry of list in the set S of positions.
FirstOf(list, S) == list[CHOOSE i \in S : \A j \in S : i <= j]

\* The source the generic selection is to return for list.
SourceOf(n, list) ==
    IF Usable(n, list, FALSE) # {} THEN FirstOf(list, Usable(n, list, FALSE))
    ELSE IF Usable(n, list, TRUE) # {} THEN FirstOf(list, Usable(n, list, TRUE))
    ELSE NilRef

\* C20: for a protocol that is not IPv6 or an empty remote address, source
\* selection returns the first entry of the primary list that is valid for
\* outgoing, not deprecated and has a refcount that is not zero; when there is
\* none, the first deprecated entry that is valid for outgoing and has a
\* refcount that is not zero; when there is none, nil. This holds for a walk
\* that starts now and for every walk that is under way.
C20_GenericSelectionOrder ==
    /\ \A p \in networkProtocols :
          runPrimary(nic, nic.primary[p], 1, NilRef).ref = SourceOf(nic, nic.primary[p])
    /\ \A t \in Threads :
          pc[t] = "primaryEndpoint" =>
             runPrimary(nic, loc[t].view, loc[t].i, loc[t].dep).ref
                = SourceOf(nic, nic.primary[loc[t].protocol])

\* A walk is under way that keeps track of a deprecated endpoint and will
\* return an endpoint that is not deprecated and comes later in the list.
C20_Witness ==
    \E t \in Threads :
       /\ pc[t] = "primaryEndpoint"
       /\ loc[t].dep # NilRef
       /\ SourceOf(nic, nic.primary[loc[t].protocol]) \notin {NilRef, loc[t].dep}

\* The entries of the IPv6 primary list that are valid for outgoing and whose
\* refcount can be taken.
Candidates(n) ==
    {n.primary[IPv6ProtocolNumber][i] : i \in
        {j \in 1..Len(n.primary[IPv6ProtocolNumber]) :
            /\ n.cells[n.primary[IPv6ProtocolNumber][j]].kind # permanentExpired
               \/ n.spoofing
            /\ n.cells[n.primary[IPv6ProtocolNumber][j]].refs # 0}}

\* The scope to take a source from for remote: the smallest scope of a
\* candidate that is at least the scope of remote, the largest scope of a
\* candidate when there is none.
BestScope(n, remote) ==
    LET scopes == {ScopeForIPv6Address(r.a) : r \in Candidates(n)}
        covering == {sc \in scopes : sc >= ScopeForIPv6Address(remote)}
    IN IF covering # {} THEN CHOOSE sc \in covering : \A o \in covering : sc <= o
       ELSE CHOOSE sc \in scopes : \A o \in scopes : sc >= o

\* The candidates that rules 1 to 3 prefer to all others for remote.
Preferred(n, remote) ==
    LET same == {r \in Candidates(n) : r.a = remote}
        scoped == {r \in Candidates(n) :
                      ScopeForIPv6Address(r.a) = BestScope(n, remote)}
        fresh == {r \in scoped : ~n.cells[r].deprecated}
    IN IF same # {} THEN same
       ELSE IF fresh # {} THEN fresh
       ELSE scoped

\* C21: for IPv6 and a remote address, source selection returns a candidate
\* (valid for outgoing, refcount not zero) that is the remote address itself
\* if there is one, else of the smallest scope that covers the remote's (of
\* the largest scope when none does) and not deprecated if a candidate of that
\* scope is not deprecated; it returns nil only when there is no candidate.
C21_IPv6SelectionRules ==
    \A remote \in SelectRemotes :
       LET r == primaryIPv6Endpoint(nic, remote).ref
       IN IF Candidates(nic) = {} THEN r = NilRef
          ELSE r \in Preferred(nic, remote)

\* The example of the spec with the addresses of the model: for the remote
\* 2001:db8::2 and the list [fe80::1, 2001:db8::1 deprecated, 2001:db8::3] the
\* selection has returned 2001:db8::3.
C21_Witness ==
    /\ Len(nic.primary[IPv6ProtocolNumber]) = 3
    /\ nic.primary[IPv6ProtocolNumber][1].a = LinkLocalAddr
    /\ nic.primary[IPv6ProtocolNumber][2].a = GlobalAddr
    /\ nic.cells[nic.primary[IPv6ProtocolNumber][2]].deprecated
    /\ nic.primary[IPv6ProtocolNumber][3].a = GlobalAddr3
    /\ primaryIPv6Endpoint(nic, GlobalAddr2).ref.a = GlobalAddr3
    /\ handles[nic.primary[IPv6ProtocolNumber][3]] = 1

\* The entry of the set S of cells that is earliest in the IPv6 primary list.
Earliest(n, S) ==
    LET list == n.primary[IPv6ProtocolNumber]
        at == {i \in 1..Len(list) : list[i] \in S}
    IN list[CHOOSE i \in at : \A j \in at : i <= j]

\* C22: IPv6 source selection sorts stably. Among the candidates that rules 1
\* to 3 prefer to all others and do not tell apart, the one that is earliest
\* in the primary list is returned, whatever the length and the order of the
\* list.
C22_SelectionIsStable ==
    \A remote \in SelectRemotes :
       Candidates(nic) # {} =>
          primaryIPv6Endpoint(nic, remote).ref = Earliest(nic, Preferred(nic, remote))

\* C23: the packet endpoints called for a packet are those registered when the
\* read lease was held, each once, in the order of registration, those of the
\* packet's protocol before those of every protocol; registrations and
\* receives that come later neither add, drop, double nor reorder them. While
\* the loop runs, what it has called is the start of that list, and it ends
\* with the whole list.
C23_FanOutIsSnapshot ==
    \A t \in Threads :
       pc[t] = "deliverPacketEPs" =>
          loc[t].called = SubSeq(loc[t].snap, 1, Len(loc[t].called))

\* What the claims compare of two states of the NIC: the address table, the
\* primary lists, the cells with their kinds and refcounts, the join counts.
Tables(n) == <<n.endpoints, n.primary, n.cells, n.mcastJoins>>

\* RemoveAddress(addr) has a permanent or permanentTentative entry to remove.
Removable(n, addr) ==
    /\ Lookup(n, addr) # NilRef
    /\ getKind(n, Lookup(n, addr)) \in {permanent, permanentTentative}

\* C24: RemoveAddress(A) returns BadLocalAddress exactly when A has no entry
\* or its entry is neither permanent nor permanentTentative, it then leaves
\* the table, the primary lists, the kinds, the refcounts and the join counts
\* as they are, and in every other case it returns success.
C24_RemoveFailsOnlyUnchanged ==
    \A a \in Addrs :
       LET r == removePermanentAddressLocked(nic, a)
       IN /\ r.err \in {ErrNone, ErrBadLocalAddress}
          /\ r.err = ErrBadLocalAddress <=> ~Removable(nic, a)
          /\ r.err = ErrBadLocalAddress => Tables(r.n) = Tables(nic)

\* The Adds the claim is about: of an address whose entry is permanent or
\* permanentTentative, and of an address that has an entry with a kind other
\* than permanent.
DuplicateAdd(n, addr, kind) ==
    /\ Lookup(n, addr) # NilRef
    /\ \/ getKind(n, Lookup(n, addr)) \in {permanent, permanentTentative}
       \/ kind # permanent

\* C25: Add of an address whose entry is permanent or permanentTentative, and
\* every Add with a kind other than permanent of an address that has an
\* entry, returns DuplicateAddress and leaves the table, the primary lists,
\* the kinds, the refcounts and the join counts as they are.
C25_DuplicateAddChangesNothing ==
    \A a \in Addrs, kind \in networkEndpointKind :
       DuplicateAdd(nic, a, kind) =>
          \A peb \in PrimaryEndpointBehavior, configType \in {static, slaac},
             deprecated \in BOOLEAN :
             LET r == addAddressLocked(nic, a, ProtoOf(a), peb, kind, configType,
                                       deprecated)
             IN /\ r.err = ErrDuplicateAddress
                /\ r.ref = NilRef
                /\ Tables(r.n) = Tables(nic)

\* The NIC has a permanent entry that callers hold references to, a
\* temporary or expired entry, and a group it has joined.
C25_Witness ==
    /\ \E a \in Addrs :
          /\ Lookup(nic, a) # NilRef
          /\ getKind(nic, Lookup(nic, a)) = permanent
          /\ handles[Lookup(nic, a)] > 0
    /\ \E a \in Addrs :
          /\ Lookup(nic, a) # NilRef
          /\ getKind(nic, Lookup(nic, a)) \in {temporary, permanentExpired}
    /\ \E a \in Addrs : nic.mcastJoins[a] > 0

\* C26: with the selected mode flag false, getRefOrCreateTemp never returns an
\* entry of kind permanentExpired: neither from its read-lease phase nor from
\* its write-lease phase, whatever other threads did to the address between
\* the two.
C26_NoExpiredWithoutModeFlag ==
    /\ \A a \in UserAddrs, tempRef \in getRefBehaviour :
          LET r == getRefRLocked(nic, a, tempRef)
          IN (~spoofingOrPromiscuous(nic, tempRef) /\ r.done /\ r.ref # NilRef)
                => getKind(r.n, r.ref) # permanentExpired
    /\ \A t \in Threads :
          (pc[t] = "getRefOrCreateTemp" /\ ~loc[t].spoofingOrPromiscuous)
             => LET r == getRefLocked(nic, loc[t].protocol, loc[t].addr, loc[t].peb)
                IN (r.err # OutOfBounds /\ r.ref # NilRef)
                      => getKind(r.n, r.ref) # permanentExpired

\* The cells of the address that the write sections add and remove; the other
\* addresses are never removed, their cells stay permanent.
RemovableCells == {r \in CellIds : r.a = GlobalAddr}

\* Cell r is in the table with a kind that lives on handles only, and its
\* last handle has been released.
Dying(r) ==
    /\ nic.endpoints[r.a] = r.g
    /\ getKind(nic, r) \in {temporary, permanentExpired}
    /\ nic.cells[r].refs = 0

\* Cell r is out of the table and out of its primary list.
Removed(n, r) ==
    /\ n.endpoints[r.a] # r.g
    /\ \A p \in DOMAIN n.primary : IndexOf(n.primary[p], r) = 0

\* C27: under fair scheduling a temporary or permanentExpired cell whose last
\* handle has been released is eventually out of the address table and of its
\* primary list, unless it is made permanent first; and the removal that a
\* handle release asks for never takes a permanent or permanentTentative
\* cell out of the table.
C27_DiesWithLastHandle ==
    /\ \A r \in RemovableCells :
          Dying(r) ~> (Removed(nic, r) \/ getKind(nic, r) = permanent)
    /\ [][\A r \in CellIds :
             (/\ nic.endpoints[r.a] = r.g
              /\ getKind(nic, r) \in {permanent, permanentTentative}
              /\ \E q \in CellIds : decRef(q) \/ removeEndpointLock(q) \/ removeEndpoint(q))
                => nic'.endpoints[r.a] = r.g]_vars

\* The cells that were created for addr and whose endpoint is not closed.
Open(n, addr) == {r \in CellIds : r.a = addr /\ n.cells[r].used /\ n.cells[r].closed = 0}

C29_ExpirationPrecedesDying ==
    /\ nic.panicked = ""
    /\ \A r \in pendingRemove : removeEndpointLocked(nic, r).panicked = ""
    /\ \A r \in Mapped : getKind(nic, r) = permanent => nic.cells[r].refs > 0

\* A removal has run for a cell that RemoveAddress had made permanentExpired
\* before its last handle was released: the cell is out of the table and
\* closed, and a delayed removal or a walk of the primary list still holds it.
C29_Witness ==
    \E r \in CellIds :
       /\ nic.cells[r].used
       /\ getKind(nic, r) = permanentExpired
       /\ nic.cells[r].closed = 1
       /\ nic.endpoints[r.a] # r.g
       /\ nic.panicked = ""

\* The removals that wait for the write lease while the table holds another
\* cell for their address.
Replaced == {r \in pendingRemove : nic.endpoints[r.a] \notin {0, r.g}}

\* C30: a delayed removal whose cell has been replaced is a no-op: the table,
\* the primary lists and the cells, the new cell with its place in its primary
\* list among them, are as before it; and no cell's endpoint is closed more
\* than once, the replaced cell's having been closed by the thread that
\* replaced it.
C30_DelayedRemovalIsNoOp ==
    /\ \A r \in Replaced :
          /\ Tables(removeEndpointLocked(nic, r)) = Tables(nic)
          /\ nic.cells[r].closed = 1
    /\ \A r \in CellIds : nic.cells[r].closed <= 1

\* A temporary cell of 2001:db8::1 dropped to refcount 0 and its removal
\* waits; AddAddress has replaced it by a cell that is in the primary list.
C30_Witness ==
    \E r \in Replaced :
       /\ r.a = GlobalAddr
       /\ getKind(nic, r) = temporary
       /\ IndexOf(nic.primary[IPv6ProtocolNumber], Lookup(nic, r.a)) # 0
       /\ IndexOf(nic.primary[IPv6ProtocolNumber], r) = 0

\* What the operations that hold the read lease only make of the NIC in the
\* current state: the generic walk of a primary list from its start and from
\* where a thread stands in it, source selection for IPv6, and the read phase
\* of getRefOrCreateTemp.
ReadLeaseResults ==
    {walkPrimary(nic, nic.primary[p], 1, NilRef).n : p \in networkProtocols}
    \cup {walkPrimary(nic, loc[t].view, loc[t].i, loc[t].dep).n :
             t \in {u \in Threads : pc[u] = "primaryEndpoint"}}
    \cup {primaryIPv6Endpoint(nic, remote).n : remote \in RemoteAddrs \ {NilAddr}}
    \cup {getRefRLocked(nic, a, tempRef).n : a \in UserAddrs, tempRef \in getRefBehaviour}

\* C31: an operation that holds the read lease only leaves the address table,
\* the primary lists and the join counts as they are; decRefLocked, which
\* removes the entry at refcount zero, runs under the write lease only.
C31_ReadLeaseChangesNoTable ==
    \A n \in ReadLeaseResults :
       /\ n.endpoints = nic.endpoints
       /\ n.primary = nic.primary
       /\ n.mcastJoins = nic.mcastJoins

\* The labels at which DeliverNetworkPacket looks for the endpoint that gets
\* the packet: local delivery (lines 1085-1088) and forwarding (1094-1131).
TakesRef == {"deliverLocal", "deliverLocalLocked", "deliverForward"}

\* The cell r exists before and after the step.
Stays(r) == nic.cells[r].used /\ nic'.cells[r].used

\* The step of thread t from a label of TakesRef to HandlePacket with the
\* reference it took: one more reference on that cell, or a new cell with one.
Acquires(t) ==
    LET ref == loc'[t].dep
    IN /\ ref # NilRef
       /\ nic'.cells[ref].refs = IF nic.cells[ref].used /\ nic.endpoints[ref.a] = ref.g
                                 THEN nic.cells[ref].refs + 1
                                 ELSE 1
       /\ \A r \in CellIds \ {ref} : Stays(r) => nic'.cells[r].refs = nic.cells[r].refs
       /\ nic'.calls.HandlePacket = nic.calls.HandlePacket + 1

\* C32: local delivery and forwarding release what they acquire. The cell
\* reference taken for HandlePacket is released once, after it, and no other
\* outcome keeps a reference; every route that FindRoute returned has been
\* released once, or handed to the forwarder when Resolve reported
\* ErrWouldBlock, or is held by a thread that is still in HandlePacket.
C32_DeliveryReleasesWhatItTakes ==
    /\ [](/\ nic.calls.FindRoute = nic.calls.Release + nic.calls.enqueue
                                     + Cardinality({t \in Threads : loc[t].route})
          /\ \A t \in Threads :
                /\ loc[t].route => pc[t] = "handlePacket"
                /\ pc[t] = "handlePacket" =>
                      loc[t].dep # NilRef /\ nic.cells[loc[t].dep].refs > 0
                /\ pc[t] \in TakesRef \cup {"idle"} => loc[t].dep = NilRef)
    /\ [][\A t \in Threads :
             /\ (pc[t] \in TakesRef /\ pc'[t] = "handlePacket") => Acquires(t)
             /\ (pc[t] \in TakesRef /\ pc'[t] \notin {pc[t], "handlePacket"}) =>
                   \A r \in CellIds : Stays(r) => nic'.cells[r].refs = nic.cells[r].refs
             /\ pc[t] = "handlePacket" /\ pc'[t] # pc[t] =>
                   /\ pc'[t] = "idle"
                   /\ nic'.cells[loc[t].dep].refs = nic.cells[loc[t].dep].refs - 1
                   /\ \A r \in CellIds \ {loc[t].dep} :
                         nic'.cells[r].refs = nic.cells[r].refs
                   /\ nic'.calls.Release =
                         nic.calls.Release + (IF loc[t].route THEN 1 ELSE 0)
             /\ nic'.calls.enqueue # nic.calls.enqueue =>
                   nic'.calls.Release = nic.calls.Release]_vars

\* Two packets were forwarded and both calls have returned: one route went
\* to the forwarder (ErrWouldBlock), the other was released after the
\* endpoint found on the route's NIC had handled the packet.
C32_Witness ==
    /\ \A t \in Threads : pc[t] = "idle"
    /\ nic.calls.FindRoute = 2
    /\ nic.calls.enqueue = 1
    /\ nic.calls.HandlePacket = 1
    /\ nic.calls.Release = 1

\* The refcounts of n2 are those of n1 but for one more on ref and one less
\* on dep (NilRef: no such cell).
RefsMoved(n1, n2, ref, dep) ==
    \A r \in CellIds :
       n2.cells[r].refs = n1.cells[r].refs + (IF r = ref THEN 1 ELSE 0)
                                           - (IF r = dep THEN 1 ELSE 0)

\* C33: source selection changes no refcount but that of its result, which is
\* one more than before the call; a deprecated endpoint that the generic walk
\* kept track of has its refcount back when another endpoint is returned, and
\* no refcount has changed when nothing is returned. This holds for the call
\* run from any state, and for the rest of a walk that other threads' steps
\* have interleaved with.
C33_SelectionIsReferenceNeutral ==
    /\ \A p \in networkProtocols :
          LET w == runPrimary(nic, nic.primary[p], 1, NilRef)
          IN RefsMoved(nic, w.n, w.ref, NilRef)
    /\ \A remote \in RemoteAddrs \ {NilAddr} :
          LET r == primaryIPv6Endpoint(nic, remote)
          IN RefsMoved(nic, r.n, r.ref, NilRef)
    /\ \A t \in Threads :
          pc[t] = "primaryEndpoint" =>
             LET w == runPrimary(nic, loc[t].view, loc[t].i, loc[t].dep)
             IN /\ loc[t].dep # NilRef
                /\ nic.cells[loc[t].dep].refs > 0
                /\ IF w.ref = loc[t].dep THEN RefsMoved(nic, w.n, NilRef, NilRef)
                   ELSE RefsMoved(nic, w.n, w.ref, loc[t].dep)

\* A walk keeps track of a deprecated endpoint and the rest of it returns
\* another endpoint, one that is not deprecated.
C33_Witness ==
    \E t \in Threads :
       /\ pc[t] = "primaryEndpoint"
       /\ loc[t].dep # NilRef
       /\ runPrimary(nic, loc[t].view, loc[t].i, loc[t].dep).ref \notin {NilRef, loc[t].dep}

\* C34: a primary list holds no cell twice, and every cell in the list of a
\* protocol is a cell of that protocol that the address table holds under
\* its own address; so a cell that leaves the table has left its primary
\* list in the same step.
C34_PrimaryListsFollowTable ==
    \A p \in DOMAIN nic.primary :
       LET list == nic.primary[p]
       IN \A i \in 1..Len(list) :
             /\ nic.cells[list[i]].used
             /\ nic.endpoints[list[i].a] = list[i].g
             /\ nic.cells[list[i]].protocol = p
             /\ \A j \in 1..Len(list) : list[j] = list[i] => j = i

\* A cell of an IPv6 address has been taken out of the table and out of the
\* IPv6 primary list, and the list holds another cell.
C34_Witness ==
    /\ Len(nic.primary[IPv6ProtocolNumber]) >= 1
    /\ \E r \in CellIds :
          /\ nic.cells[r].used
          /\ nic.cells[r].protocol = IPv6ProtocolNumber
          /\ nic.cells[r].closed = 1
          /\ nic.endpoints[r.a] # r.g

\* C35: n.mu.enabled never goes back to false, and enable sets it, and
\* attaches the link endpoint, before the steps that can fail. The call that
\* finds the NIC not enabled leaves it enabled and attached whatever it
\* returns; when the broadcast entry or the all-nodes join reports
\* ErrDuplicateAddress the steps after the failing one have not run (the group
\* is not joined, no link-local address is generated, routers are not
\* solicited); and a call on an enabled NIC returns nil and runs none of them.
C35_EnabledBeforeFallibleSteps ==
    [][/\ nic.enabled => nic'.enabled
       /\ \A t \in Threads, opts \in StackOptions :
             enableWLocked(t, opts) =>
                LET r == enableLocked(nic, opts)
                IN IF nic.enabled
                   THEN /\ r.err = ErrNone
                        /\ nic'.mcastJoins = nic.mcastJoins
                        /\ nic'.ndp = nic.ndp
                        /\ nic'.endpoints = nic.endpoints
                        /\ nic'.attached = nic.attached
                   ELSE /\ nic'.enabled
                        /\ nic'.attached = 1
                        /\ r.err \in {ErrNone, ErrDuplicateAddress}
                        /\ r.err = ErrDuplicateAddress =>
                              /\ nic'.mcastJoins = nic.mcastJoins
                              /\ nic'.ndp.autoGenAddresses = nic.ndp.autoGenAddresses
                              /\ nic'.ndp.solicitingRouters = nic.ndp.solicitingRouters
                              /\ \/ hasPermanentAddrLocked(nic, IPv4Broadcast)
                                 \/ hasPermanentAddrLocked(nic, IPv6AllNodesMulticastAddress)]_vars

\* C35: an enable that failed has left the NIC enabled and attached, with the
\* all-nodes group not joined and router solicitation not started, and a
\* thread that had found the NIC not enabled is about to run the write
\* section of a later call.
C35_Witness ==
    /\ nic.enabled
    /\ nic.attached = 1
    /\ nic.mcastJoins[IPv6AllNodesMulticastAddress] = 0
    /\ ~nic.ndp.solicitingRouters
    /\ \E t \in Threads : pc[t] = "enable"

====
